---- MODULE Spec2Model ----
(***************************************************************************)
(* A model of rb-gateway: the token store (api/tokens), the webhook CRUD   *)
(* handlers (api/routes.go), and the API lifecycle and serve loop          *)
(* (api/api.go, commands/serve.go).                                        *)
(*                                                                         *)
(* Strings are sequences of one-character strings, so that lengths, hex    *)
(* formatting and the JSON text of the token file are computed and not     *)
(* assumed.                                                                *)
(***************************************************************************)
EXTENDS Integers, Sequences, FiniteSets, TLC

VARIABLES
    \* ---- token store (api/tokens) ----
    tsKind,      \* "file" (FileStore) or "memory" (MemoryStore)
    tsGo,        \* the Go release the binary was built with (encoding/json differs)
    tsTokens,    \* the keys of the MemoryStore map
    tsLock,      \* FileStore.lock: [writer |-> 0 or a caller, readers |-> set of callers]
    tsFile,      \* the content of the file at FileStore.path: "absent" or a sequence of characters
    tpc,         \* per caller: "idle", "wait" (before the lock), "crit", "insert", "done"
    top,         \* per caller: the call in progress and its locals
    tsIssued,    \* history: the tokens returned by New() on the current store, in order
    tsSaved,     \* history: the tokens that had been issued when the last successful Save() was called
    tsLoaded,    \* history: "none", or the outcome ("ok"/"err") of the last NewFileStore(path) after Init
    tcalls,      \* number of calls made on the store so far (bounded)
    \* ---- webhook store and its handlers (api/routes.go, repositories/hooks) ----
    hookStore,   \* api.hookStore: a map from hook id to a hook, or to NilHook (a nil *Webhook)
    hookFile,    \* the file at config.WebhookStorePath: whether it exists, and the hooks in it
    hookResp,    \* the last webhook request and its response
    hookReq,     \* history: whether the body of the last webhook request decoded, and
                 \* the hook (POST) or the fields (PATCH) it holds
    \* ---- the API object and the serve loop (api/api.go, commands/serve.go) ----
    loopPc,      \* where commands.Serve is: "start", "serve", "select", "shutdown", "draining", "lock",
                 \* "save", "returned", "saveerr", "setconfig", "construct", "assign", "install",
                 \* "exited", "fatal", "killed"
    listener,    \* the goroutine of api.Serve: "none", "spawned", "listening", "closed"
    lateListeners, \* the goroutines of servers shut down before they ran, still to run
    cfgLock,     \* api.configLock: [writer, reader] (the listener goroutine is the reader)
    shouldExit,  \* the local of the serve loop
    sigintReset, \* signal.Reset(os.Interrupt) has run: SIGINT has its default action again
    newCfg,      \* the local newCfg of the serve loop, NoCfg for nil
    cfgCount,    \* number of configurations produced by the watcher so far
    apiCfg,      \* api.config, api.tokenStore, api.authenticator.Secrets, api.hookStore
    scStep,      \* inside setConfigUnsafe: the next assignment, 0 when not assigning
    applied,     \* history: the configuration of the last SetConfig that returned nil
    reloadOutcome, \* history: "none", or how the reload attempt of this iteration ended
    reloadPre,   \* history: the API object's fields when the reload attempt began
    hnd,         \* per handler goroutine: the request in progress and what it has read
    hcalls,      \* number of requests accepted so far (bounded)
    serveCfg,    \* the local cfg of commands.Serve: the first configuration, NoCfg before it
    hooksFor,    \* history: the configuration the last installHooks call was given, 0 for none
    stTokens,    \* per token store object (named by its configuration): the tokens it holds
    tokDisk,     \* the file at the token store path: whether NewFileStore can read it, and its tokens
    tokIssued,   \* history: the tokens the session endpoint has answered with
    \* ---- the store file on disk, WebhookStore.Save in steps, trigger-webhooks ----
    fsPath,      \* the file the webhook store path names: an inode, 0 when there is none
    fsText,      \* per inode: the text of the file, a sequence of JSON chunks
    fsVersions,  \* history: the complete texts the path has named so far
    svPc,        \* where the server's Save is: "idle", "write", "rename"
    svTmp,       \* Save: the inode of the file being written
    svText,      \* Save: the text being written
    svDone,      \* number of Save calls begun so far (bounded)
    trPc,        \* where TriggerWebhooks is: "off", "start", "opened", "read", "dispatch",
                 \* "aborted" (log.Fatal before the dispatch), "exited" (after it)
    trFd,        \* TriggerWebhooks: the inode of the opened store file, 0 before os.Open
    trContent,   \* TriggerWebhooks: the text read from the store file
    trReadAt,    \* history: where the server's Save was when the text was read
    trStore,     \* TriggerWebhooks: the loaded store
    trEvent,     \* the event argument of trigger-webhooks
    trRepo,      \* the repository argument of trigger-webhooks
    trTodo,      \* ForEach: the keys of the store not yet visited
    trPosts,     \* history: per hook id, the number of POSTs dispatched to it
    trOut,       \* history: per hook id, how its POST ended ("none" when there was none)
    trBody,      \* rawPayload: the marshalled payload of the event
    trSent,      \* history: per hook id, the request invokeHook made for it
    trExit,      \* the exit status of the process: -1 while it runs
    \* ---- the webhook handlers as concurrent goroutines (api/routes.go) ----
    hcStore,     \* api.hookStore
    hcFile,      \* the file at config.WebhookStorePath
    hcLock,      \* api.hookStoreLock: [writer |-> 0 or a client, readers |-> set of clients]
    hcPc,        \* per client: "idle", "wait", "check", "apply", "save", "unlock", "done"
    hcReq,       \* per client: its request
    hcLocal,     \* per client: the locals of its handler
    hcRes,       \* per client: the response
    hcRef,       \* history: the store and file of the handlers run one after another
    hcExp,       \* history: per client, the response of its handler in that run
    hcConc,      \* history: per client, whether another handler was running when it was invoked
    \* ---- the payload of a Git push (repositories/git.go) ----
    gitParents,  \* the object store: per commit, its parent hashes in order
    gitBranches, \* the local branches: per name, the tip (0 when there is no such branch)
    gitInput,    \* the records on the standard input of post-receive
    gitPc,       \* parsePushEvent: "idle", "start", "records", "returned", "error"
    gitIdx,      \* the index of the record the loop handles next
    gitSeen,     \* seen: the hashes processed so far
    gitPayload,  \* payload.Commits
    \* ---- installing the hooks of a repository ----
    ihScm,       \* the kind of the repository: "git", "hg" ("none" when none is installed on)
    ihFs,        \* Git: hooks/post-receive.d exists (dir), and the files hooks/post-receive
                 \* (dispatch), .d/00-original-post-receive (original) and
                 \* .d/99-rbgateway-push-event.sh (script)
    ihHgKey,     \* Mercurial: the value of changegroup.rbgateway in .hg/hgrc
    ihCalls,     \* the number of InstallHooks calls made
    ihLast,      \* history: the last call (force, a step failed, an error returned, moved the original, ...)
    ihWant,      \* history: the command of the latest forced call, or of the first call
    ihUser0,     \* history: whether hooks/post-receive existed before the first call
    \* ---- the dispatcher script at hooks/post-receive ----
    dhDir,       \* whether hooks/post-receive.d is a directory
    dhHooks,     \* the files of post-receive.d: executable or not, and the exit status of each
    dhPc,        \* "idle", "start", "loop", "exit", "exited"
    dhIdx,       \* the index of the file the loop handles next
    dhStatus,    \* $?
    dhRan,       \* history: the files that were run
    dhExit,      \* EXIT
    \* ---- a store saved, loaded and saved again ----
    rtStore,     \* the WebhookStore
    rtFile,      \* the text of the store file
    rtFirst,     \* history: the text the first Save wrote
    rtPc,        \* "idle", "fresh", "saved", "loaded", "resaved"
    \* ---- the reinstall-hooks command (commands/reinstall_hooks.go) ----
    rhPc,        \* "idle", "start", "loop", "exited"
    rhCfg,       \* the names of the repositories in the configuration file
    rhLoaded,    \* config.Load returned a configuration
    rhTodo,      \* the repositories the loop of installHooks has not reached yet
    rhCalls,     \* history: the InstallHooks calls made (repository and force)
    rhErrors,    \* errors: the repositories whose InstallHooks returned an error, in order
    rhBroken,    \* history: the repositories where a step of InstallHooks failed
    rhExit,      \* the exit status of the process: -1 while it runs
    \* ---- mergeBase on its own (repositories/git.go) ----
    mbParents,   \* the object store: per commit, its parent hashes in order
    mbA,         \* the argument a
    mbB,         \* the argument b
    mbPc,        \* "idle", "start", "returned"
    mbBest,      \* the hash returned, nullRevision for nil
    \* ---- the token file while FileStore.Save writes it ----
    tkTokens,    \* store.tokens
    tkFile,      \* the file at store.path: whether it exists, and its content
    tkBefore,    \* history: the content of the file when Save was called
    tkPc,        \* "idle", "start", "write", "returned"
    tkBytes,     \* bytes: the marshalled tokens
    tkN,         \* the number of bytes f.Write has put into the file so far
    \* ---- one request to the session endpoint (API.getSession) ----
    seStore,     \* the tokens of api.tokenStore
    seDraws,     \* what rand.Read gives, call after call
    sePc,        \* "idle", "start", "done"
    seMade,      \* history: what api.tokenStore.New() returned
    seResp       \* the response, and how the handler ended

hookVars == <<hookStore, hookFile, hookResp, hookReq>>

serveVars == <<loopPc, listener, lateListeners, cfgLock, shouldExit, sigintReset, newCfg, cfgCount, apiCfg, scStep,
               applied, reloadOutcome, reloadPre, hnd, hcalls, serveCfg, hooksFor,
               stTokens, tokDisk, tokIssued>>

tokVars == <<tsKind, tsGo, tsTokens, tsLock, tsFile, tpc, top, tsIssued, tsSaved, tsLoaded, tcalls>>

trigVars == <<fsPath, fsText, fsVersions, svPc, svTmp, svText, svDone, trPc, trFd, trContent,
              trReadAt, trStore, trEvent, trRepo, trTodo, trPosts, trOut, trBody, trSent, trExit>>

concVars == <<hcStore, hcFile, hcLock, hcPc, hcReq, hcLocal, hcRes, hcRef, hcExp, hcConc>>

gitVars == <<gitParents, gitBranches, gitInput, gitPc, gitIdx, gitSeen, gitPayload>>

instVars == <<ihScm, ihFs, ihHgKey, ihCalls, ihLast, ihWant, ihUser0>>

dispVars == <<dhDir, dhHooks, dhPc, dhIdx, dhStatus, dhRan, dhExit>>

rtVars == <<rtStore, rtFile, rtFirst, rtPc>>

reinstVars == <<rhPc, rhCfg, rhLoaded, rhTodo, rhCalls, rhErrors, rhBroken, rhExit>>

mbVars == <<mbParents, mbA, mbB, mbPc, mbBest>>

tkVars == <<tkTokens, tkFile, tkBefore, tkPc, tkBytes, tkN>>

sessVars == <<seStore, seDraws, sePc, seMade, seResp>>

vars == <<tokVars, hookVars, serveVars, trigVars, concVars, gitVars, instVars, dispVars, rtVars,
          reinstVars, mbVars, tkVars, sessVars>>

\* What the actions of one part of the model leave alone.
nonTokVars == <<hookVars, serveVars, trigVars, concVars, gitVars, instVars, dispVars, rtVars, reinstVars, mbVars, tkVars, sessVars>>
nonHookVars == <<tokVars, serveVars, trigVars, concVars, gitVars, instVars, dispVars, rtVars, reinstVars, mbVars, tkVars, sessVars>>
nonServeVars == <<tokVars, hookVars, trigVars, concVars, gitVars, instVars, dispVars, rtVars, reinstVars, mbVars, tkVars, sessVars>>
nonTrigVars == <<tokVars, hookVars, serveVars, concVars, gitVars, instVars, dispVars, rtVars, reinstVars, mbVars, tkVars, sessVars>>
nonConcVars == <<tokVars, hookVars, serveVars, trigVars, gitVars, instVars, dispVars, rtVars, reinstVars, mbVars, tkVars, sessVars>>
nonGitVars == <<tokVars, hookVars, serveVars, trigVars, concVars, instVars, dispVars, rtVars, reinstVars, mbVars, tkVars, sessVars>>
nonInstVars == <<tokVars, hookVars, serveVars, trigVars, concVars, gitVars, dispVars, rtVars, reinstVars, mbVars, tkVars, sessVars>>
nonDispVars == <<tokVars, hookVars, serveVars, trigVars, concVars, gitVars, instVars, rtVars, reinstVars, mbVars, tkVars, sessVars>>
nonRtVars == <<tokVars, hookVars, serveVars, trigVars, concVars, gitVars, instVars, dispVars, reinstVars, mbVars, tkVars, sessVars>>
nonReinstVars == <<tokVars, hookVars, serveVars, trigVars, concVars, gitVars, instVars, dispVars, rtVars, mbVars, tkVars, sessVars>>
nonMbVars == <<tokVars, hookVars, serveVars, trigVars, concVars, gitVars, instVars, dispVars, rtVars, reinstVars, tkVars, sessVars>>
nonTkVars == <<tokVars, hookVars, serveVars, trigVars, concVars, gitVars, instVars, dispVars, rtVars, reinstVars,
              mbVars, sessVars>>
nonSessVars == <<tokVars, hookVars, serveVars, trigVars, concVars, gitVars, instVars, dispVars, rtVars, reinstVars,
                mbVars, tkVars>>

(***************************************************************************)
(* Bounds of the model.                                                    *)
(***************************************************************************)
NumCallers == 2      \* concurrent callers of one token store
NumRaw == 2          \* distinct values the random source can produce
MaxCalls == 3        \* calls made on the token store in one behaviour
NumHandlers == 1     \* handler goroutines of the HTTP server
MaxRequests == 1     \* requests accepted in one behaviour
MaxConfigs == 3      \* configurations the watcher produces in one behaviour
MaxEntries == 2      \* entries of the webhook store file that trigger-webhooks loads
MaxSaves == 1        \* Save calls of the server while trigger-webhooks runs
NumClients == 2      \* concurrent webhook requests
MaxCommits == 4      \* commits in the Git repository that receives a push
MaxInstalls == 2     \* InstallHooks calls made on one repository
MaxCut == 2          \* bytes of its piece that a failing write has written
MaxHooks == 3        \* files in hooks/post-receive.d when the dispatcher runs

(***************************************************************************)
(* Program constants.                                                      *)
(***************************************************************************)
maxAttempts == 10
rawTokenSize == 32
TokenSize == 64

Callers == 1..NumCallers

(***************************************************************************)
(* fmt.Sprintf("%X", raw): two uppercase hex digits per byte.              *)
(***************************************************************************)
HexDigits == <<"0","1","2","3","4","5","6","7","8","9","A","B","C","D","E","F">>

HexDigit(n) == HexDigits[n + 1]

RECURSIVE FormatX(_)
FormatX(raw) ==
    IF raw = <<>> THEN <<>>
    ELSE <<HexDigit(Head(raw) \div 16), HexDigit(Head(raw) % 16)>> \o FormatX(Tail(raw))

\* The values rand.Read can fill `raw` with in the model: rawTokenSize bytes,
\* the first of which varies.
RawValues == { [i \in 1..rawTokenSize |-> IF i = 1 THEN 160 + b ELSE 171] : b \in 1..NumRaw }

RawA == [i \in 1..rawTokenSize |-> IF i = 1 THEN 161 ELSE 171]

\* A 63-character and a 65-character header value.
ShortToken == SubSeq(FormatX(RawA), 1, TokenSize - 1)
LongToken == FormatX(RawA) \o <<"0">>

\* The PRIVATE-TOKEN header values a request can carry in the model.
HeaderValues == { FormatX(r) : r \in RawValues } \cup {ShortToken, LongToken}

(***************************************************************************)
(* MemoryStore                                                             *)
(***************************************************************************)
MemoryStoreExists(store, token) ==
    IF Len(token) # TokenSize THEN FALSE ELSE token \in store

\* Get without the membership test.
MemoryStoreGetAnyToken(store, header) ==
    IF Len(header) # TokenSize THEN "nil" ELSE header

\* The result of MemoryStore.Get for a header value: the token, or "nil".
MemoryStoreGet(store, header) ==
    IF Len(header) # TokenSize THEN "nil"
    ELSE IF ~MemoryStoreExists(store, header) THEN "nil"
    ELSE header

(***************************************************************************)
(* Bytes.  A byte of a string, a token or a file is the one-character      *)
(* string that holds it; a byte that a string constant cannot hold is the  *)
(* three-character name "xHH" of its value.                                *)
(***************************************************************************)
LowerLetters == "abcdefghijklmnopqrstuvwxyz"
UpperLetters == "ABCDEFGHIJKLMNOPQRSTUVWXYZ"
DecDigits == "0123456789"
HexBytes == "0123456789abcdefABCDEF"

Range(f) == { f[i] : i \in DOMAIN f }

\* The bytes 32 to 95 and 97 to 126, in ascending order.
AsciiFrom32 == " !\"#$%&'()*+,-./0123456789:;<=>?@ABCDEFGHIJKLMNOPQRSTUVWXYZ[\\]^_"
AsciiFrom97 == "abcdefghijklmnopqrstuvwxyz{|}~"

CharAt(s, i) == SubSeq(s, i, i)

CharsOf(s) == { CharAt(s, i) : i \in 1..Len(s) }

\* The byte of value n.
ByteOf(n) ==
    IF n = 9 THEN "\t"
    ELSE IF n = 10 THEN "\n"
    ELSE IF n = 12 THEN "\f"
    ELSE IF n = 13 THEN "\r"
    ELSE IF n \in 32..95 THEN CharAt(AsciiFrom32, n - 31)
    ELSE IF n \in 97..126 THEN CharAt(AsciiFrom97, n - 96)
    ELSE "x" \o HexDigit(n \div 16) \o HexDigit(n % 16)

ByteNames == [n \in 0..255 |-> ByteOf(n)]

AllBytes == { ByteNames[n] : n \in 0..255 }

\* The value of a byte.
ByteVal == [c \in AllBytes |-> CHOOSE n \in 0..255 : ByteNames[n] = c]

\* The classes of bytes net/url tells apart.
LetterBytes == CharsOf(LowerLetters) \cup CharsOf(UpperLetters)
UpperBytes == CharsOf(UpperLetters)
DigitBytes == CharsOf(DecDigits)
HexByteSet == CharsOf(HexBytes)
UserinfoBytes == LetterBytes \cup DigitBytes \cup CharsOf("-._:~!$&'()*+,;=%@")

\* unhex: the value of a hexadecimal digit.
HexValues ==
    [c \in HexByteSet |->
        LET i == CHOOSE j \in 1..Len(HexBytes) : CharAt(HexBytes, j) = c
        IN IF i <= 16 THEN i - 1 ELSE i - 7]

\* The sequence of the bytes of a string.
RECURSIVE BytesFrom(_, _)
BytesFrom(s, i) == IF i > Len(s) THEN <<>> ELSE <<CharAt(s, i)>> \o BytesFrom(s, i + 1)

BytesOf(s) == BytesFrom(s, 1)

(***************************************************************************)
(* unicode/utf8 and unicode/utf16, as encoding/json uses them.             *)
(***************************************************************************)
RuneError == 65533

\* The value of the byte at i, -1 behind the end.
ByteAt(s, i) == IF i <= Len(s) THEN ByteVal[s[i]] ELSE -1

\* The length of the encoding that starts with the byte p0, 0 for a byte
\* that starts none.
Utf8Size(p0) ==
    IF p0 \in 194..223 THEN 2
    ELSE IF p0 \in 224..239 THEN 3
    ELSE IF p0 \in 240..244 THEN 4
    ELSE 0

\* acceptRanges: the second bytes allowed after p0.
Utf8Accept(p0) ==
    IF p0 = 224 THEN 160..191
    ELSE IF p0 = 237 THEN 128..159
    ELSE IF p0 = 240 THEN 144..191
    ELSE IF p0 = 244 THEN 128..143
    ELSE 128..191

Rune(r, size) == [rune |-> r, size |-> size]

\* utf8.DecodeRune on the bytes p0 b1 b2 b3, n of which exist.
DecodeRuneBytes(p0, b1, b2, b3, n) ==
    IF p0 < 128 THEN Rune(p0, 1)
    ELSE IF Utf8Size(p0) = 0 \/ n < Utf8Size(p0) \/ b1 \notin Utf8Accept(p0)
         THEN Rune(RuneError, 1)
    ELSE IF Utf8Size(p0) = 2 THEN Rune((p0 % 32) * 64 + (b1 % 64), 2)
    ELSE IF b2 \notin 128..191 THEN Rune(RuneError, 1)
    ELSE IF Utf8Size(p0) = 3 THEN Rune((p0 % 16) * 4096 + (b1 % 64) * 64 + (b2 % 64), 3)
    ELSE IF b3 \notin 128..191 THEN Rune(RuneError, 1)
    ELSE Rune((p0 % 8) * 262144 + (b1 % 64) * 4096 + (b2 % 64) * 64 + (b3 % 64), 4)

\* utf8.DecodeRune(s[i:]) for i inside s.
DecodeRune(s, i) ==
    DecodeRuneBytes(ByteAt(s, i), ByteAt(s, i + 1), ByteAt(s, i + 2), ByteAt(s, i + 3),
                    Len(s) - i + 1)

\* utf8.EncodeRune
EncodeRune(r) ==
    IF r < 128 THEN <<ByteNames[r]>>
    ELSE IF r < 2048 THEN <<ByteNames[192 + r \div 64], ByteNames[128 + (r % 64)]>>
    ELSE IF r \in 55296..57343 \/ r > 1114111
         THEN <<ByteNames[239], ByteNames[191], ByteNames[189]>>
    ELSE IF r < 65536
         THEN <<ByteNames[224 + r \div 4096], ByteNames[128 + ((r \div 64) % 64)],
                ByteNames[128 + (r % 64)]>>
    ELSE <<ByteNames[240 + r \div 262144], ByteNames[128 + ((r \div 4096) % 64)],
           ByteNames[128 + ((r \div 64) % 64)], ByteNames[128 + (r % 64)]>>

\* utf16.IsSurrogate
IsSurrogate(r) == r \in 55296..57343

\* utf16.DecodeRune
DecodeSurrogates(r1, r2) ==
    IF r1 \in 55296..56319 /\ r2 \in 56320..57343
    THEN (r1 - 55296) * 1024 + (r2 - 56320) + 65536
    ELSE RuneError

(***************************************************************************)
(* encoding/json for a []string.  Marshal writes ["a","b"] and escapes the *)
(* bytes of a string as encodeState.string does with escapeHTML; Unmarshal *)
(* accepts null, and an array whose elements are strings or null, with     *)
(* optional whitespace, and returns an error for every other text.         *)
(***************************************************************************)
\* htmlSafeSet: the ASCII bytes that Marshal copies.
HtmlSafeBytes == { ByteNames[n] : n \in 32..127 } \ {"\"", "\\", "<", ">", "&"}

\* The characters of the escapes with one letter, and the bytes they stand for.
EscapeLetters == <<"\"", "\\", "/", "b", "f", "n", "r", "t">>
EscapedBytes == <<"\"", "\\", "/", ByteNames[8], ByteNames[12], "\n", "\r", "\t">>

\* The Go releases that differ in what Marshal writes: those before 1.22
\* (go.mod asks for 1.15 or later) write backspace and form feed as \u0008
\* and \u000c, those from 1.22 on as \b and \f.  A binary is built with
\* one of them.
Toolchains == {"go1.15", "go1.22"}

\* An ASCII byte outside htmlSafeSet, as Marshal of the release `go` writes it.
EscapeAscii(c, go) ==
    IF c \in {"\"", "\\"} THEN <<"\\", c>>
    ELSE IF c = ByteNames[8] /\ go = "go1.22" THEN <<"\\", "b">>
    ELSE IF c = ByteNames[12] /\ go = "go1.22" THEN <<"\\", "f">>
    ELSE IF c = "\n" THEN <<"\\", "n">>
    ELSE IF c = "\r" THEN <<"\\", "r">>
    ELSE IF c = "\t" THEN <<"\\", "t">>
    ELSE <<"\\", "u", "0", "0", CharAt(HexBytes, ByteVal[c] \div 16 + 1),
           CharAt(HexBytes, (ByteVal[c] % 16) + 1)>>

\* The bytes from i on that start with a byte of 128 or more, decoded as d.
EscapeRune(s, i, d) ==
    IF d.rune = RuneError /\ d.size = 1 THEN <<"\\", "u", "f", "f", "f", "d">>
    ELSE IF d.rune \in {8232, 8233}
         THEN <<"\\", "u", "2", "0", "2", CharAt(HexBytes, (d.rune % 16) + 1)>>
    ELSE SubSeq(s, i, i + d.size - 1)

\* The number of bytes of s that EscapeRune stands for.
RuneWidth(d) == d.size

\* encodeState.string without the quotes, from the byte i on.
RECURSIVE EscapeFrom(_, _, _)
EscapeFrom(s, i, go) ==
    IF i > Len(s) THEN <<>>
    ELSE IF s[i] \in HtmlSafeBytes THEN <<s[i]>> \o EscapeFrom(s, i + 1, go)
    ELSE IF ByteVal[s[i]] < 128 THEN EscapeAscii(s[i], go) \o EscapeFrom(s, i + 1, go)
    ELSE EscapeRune(s, i, DecodeRune(s, i))
             \o EscapeFrom(s, i + RuneWidth(DecodeRune(s, i)), go)

Quote(s, go) ==
    IF \A i \in 1..Len(s) : s[i] \in HtmlSafeBytes
    THEN <<"\"">> \o s \o <<"\"">>
    ELSE <<"\"">> \o EscapeFrom(s, 1, go) \o <<"\"">>

RECURSIVE JoinQuoted(_, _)
JoinQuoted(list, go) ==
    IF list = <<>> THEN <<>>
    ELSE IF Len(list) = 1 THEN Quote(list[1], go)
    ELSE Quote(list[1], go) \o <<",">> \o JoinQuoted(Tail(list), go)

JsonMarshal(list, go) == <<"[">> \o JoinQuoted(list, go) \o <<"]">>

IsWs(c) == c \in {" ", "\n", "\t", "\r"}

\* The index of the first byte from i on that is not white space.
SkipWs(b, i) ==
    IF \A k \in i..Len(b) : IsWs(b[k]) THEN IF i > Len(b) THEN i ELSE Len(b) + 1
    ELSE CHOOSE j \in i..Len(b) : ~IsWs(b[j]) /\ \A k \in i..(j - 1) : IsWs(b[k])

\* Four hexadecimal digits at i.
FourHexAt(b, i) == i + 3 <= Len(b) /\ \A k \in i..(i + 3) : b[k] \in HexByteSet

\* The number of backslashes right in front of j, not going back beyond i.
BackslashRun(b, i, j) ==
    CHOOSE r \in 0..(j - i) :
        /\ \A k \in (j - r)..(j - 1) : b[k] = "\\"
        /\ (r = j - i \/ b[j - r - 1] # "\\")

\* In the string that starts at i, the byte at j is the closing quote, or
\* the backslash that starts an escape.
ClosesString(b, i, j) == b[j] = "\"" /\ BackslashRun(b, i, j) % 2 = 0

StartsEscape(b, i, j) == b[j] = "\\" /\ BackslashRun(b, i, j) % 2 = 0

\* The scanner accepts the byte at j of the string that starts at i: no byte
\* below 32, and after a backslash one of the escape letters, or u and four
\* hexadecimal digits.
ValidStringByte(b, i, j) ==
    IF StartsEscape(b, i, j)
    THEN /\ j + 1 <= Len(b)
         /\ \/ b[j + 1] \in Range(EscapeLetters)
            \/ b[j + 1] = "u" /\ FourHexAt(b, j + 2)
    ELSE ByteVal[b[j]] >= 32

\* The index of the quote closing the string whose first character is at i,
\* or 0 when the string does not end or the scanner refuses a byte of it.
StringEnd(b, i) ==
    IF \E j \in i..Len(b) : ClosesString(b, i, j)
    THEN LET e == CHOOSE j \in i..Len(b) :
                      ClosesString(b, i, j) /\ \A k \in i..(j - 1) : ~ClosesString(b, i, k)
         IN IF \A k \in i..(e - 1) : ValidStringByte(b, i, k) THEN e ELSE 0
    ELSE 0

\* getu4: the number written as \uXXXX at i, or -1.
GetU4(s, i) ==
    IF i + 5 > Len(s) THEN -1
    ELSE IF s[i] # "\\" \/ s[i + 1] # "u" \/ ~FourHexAt(s, i + 2) THEN -1
    ELSE HexValues[s[i + 2]] * 4096 + HexValues[s[i + 3]] * 256
         + HexValues[s[i + 4]] * 16 + HexValues[s[i + 5]]

\* The byte an escape with the letter c stands for.
UnescapedByte(c) == EscapedBytes[CHOOSE k \in 1..Len(EscapeLetters) : EscapeLetters[k] = c]

\* The rune of the \uXXXX escape rr followed by rr1, and how many bytes of
\* the text it takes: a pair of surrogates is one rune, half a pair is
\* RuneError.
EscapedRune(rr, rr1) ==
    IF ~IsSurrogate(rr) THEN Rune(rr, 6)
    ELSE IF DecodeSurrogates(rr, rr1) # RuneError THEN Rune(DecodeSurrogates(rr, rr1), 12)
    ELSE Rune(RuneError, 6)

\* unquoteBytes on the text between the quotes, from the byte i on.
RECURSIVE UnquoteFrom(_, _)
UnquoteRune(s, i, d) == EncodeRune(d.rune) \o UnquoteFrom(s, i + d.size)

UnquoteFrom(s, i) ==
    IF i > Len(s) THEN <<>>
    ELSE IF s[i] = "\\"
         THEN IF s[i + 1] = "u" THEN UnquoteRune(s, i, EscapedRune(GetU4(s, i), GetU4(s, i + 6)))
              ELSE <<UnescapedByte(s[i + 1])>> \o UnquoteFrom(s, i + 2)
    ELSE IF ByteVal[s[i]] < 128 THEN <<s[i]>> \o UnquoteFrom(s, i + 1)
    ELSE UnquoteRune(s, i, DecodeRune(s, i))

\* The bytes that unquoteBytes copies one by one.
PlainBytes == { ByteNames[n] : n \in 32..127 } \ {"\\"}

Unquote(s) ==
    IF \A i \in 1..Len(s) : s[i] \in PlainBytes THEN s ELSE UnquoteFrom(s, 1)

\* The literal null at i.
NullAt(b, i) == i + 3 <= Len(b) /\ SubSeq(b, i, i + 3) = <<"n", "u", "l", "l">>

JsonError == [ok |-> FALSE, list |-> <<>>]

\* Parse the elements of an array from index i on; acc holds those read so
\* far.  A null element leaves the zero value, the empty string.
RECURSIVE ParseElems(_, _, _)
ParseNext(b, n, acc) ==
    IF n > Len(b) THEN JsonError
    ELSE IF b[n] = "," THEN ParseElems(b, n + 1, acc)
    ELSE IF b[n] = "]" /\ SkipWs(b, n + 1) > Len(b) THEN [ok |-> TRUE, list |-> acc]
    ELSE JsonError

ParseString(b, s, e, acc) ==
    IF e = 0 THEN JsonError
    ELSE ParseNext(b, SkipWs(b, e + 1), Append(acc, Unquote(SubSeq(b, s + 1, e - 1))))

ParseElem(b, s, acc) ==
    IF s > Len(b) THEN JsonError
    ELSE IF b[s] = "\"" THEN ParseString(b, s, StringEnd(b, s + 1), acc)
    ELSE IF NullAt(b, s) THEN ParseNext(b, SkipWs(b, s + 4), Append(acc, <<>>))
    ELSE JsonError

ParseElems(b, i, acc) == ParseElem(b, SkipWs(b, i), acc)

\* The text after the "[" at s.
ParseArray(b, n) ==
    IF n <= Len(b) /\ b[n] = "]"
    THEN IF SkipWs(b, n + 1) > Len(b) THEN [ok |-> TRUE, list |-> <<>>] ELSE JsonError
    ELSE ParseElems(b, n, <<>>)

JsonValue(b, s) ==
    IF s > Len(b) THEN JsonError
    ELSE IF NullAt(b, s) THEN IF SkipWs(b, s + 4) > Len(b) THEN [ok |-> TRUE, list |-> <<>>]
                              ELSE JsonError
    ELSE IF b[s] = "[" THEN ParseArray(b, SkipWs(b, s + 1))
    ELSE JsonError

JsonUnmarshal(b) == JsonValue(b, SkipWs(b, 1))

\* All the orders in which a map's keys can be iterated.
Orderings(S) == { f \in [1..Cardinality(S) -> S] : Range(f) = S }

(***************************************************************************)
(* FileStore                                                               *)
(***************************************************************************)
\* NewFileStore(path): a missing file or a zero-length file gives an empty
\* store; otherwise the file must hold a JSON array of strings.
NewFileStore(file) ==
    IF file = "absent" THEN [ok |-> TRUE, tokens |-> {}]
    ELSE IF Len(file) = 0 THEN [ok |-> TRUE, tokens |-> {}]
    ELSE LET u == JsonUnmarshal(file) IN
         IF u.ok THEN [ok |-> TRUE, tokens |-> Range(u.list)]
         ELSE [ok |-> FALSE, tokens |-> {}]

\* os.OpenFile(path, O_WRONLY|O_CREATE) followed by f.Write(bytes): the bytes
\* replace the start of the file; the file is not truncated.
WriteFile(file, bytes) ==
    IF file = "absent" THEN bytes
    ELSE bytes \o SubSeq(file, Len(bytes) + 1, Len(file))

\* The lock each FileStore method takes: "w" is lock.Lock(), "r" is lock.RLock().
\* (NewLockModeShared: New under the reader lock; ExistsLockModeNone: Exists
\* without the lock.)
NewLockModeShared == "r"
NewLockMode == "w"
SaveLockMode == "w"
GetLockMode == "r"
ExistsLockModeNone == "none"
ExistsLockMode == "r"

\* The MemoryStore takes no lock at all.
LockModeOf(kind, op) ==
    IF kind = "memory" THEN "none"
    ELSE CASE op = "new" -> NewLockMode
           [] op = "save" -> SaveLockMode
           [] op = "auth" -> GetLockMode
           [] op = "exists" -> ExistsLockMode

\* sync.RWMutex
CanAcquire(lock, mode) ==
    CASE mode = "w" -> lock.writer = 0 /\ lock.readers = {}
      [] mode = "r" -> lock.writer = 0
      [] mode = "none" -> TRUE

Acquired(lock, mode, p) ==
    CASE mode = "w" -> [lock EXCEPT !.writer = p]
      [] mode = "r" -> [lock EXCEPT !.readers = @ \cup {p}]
      [] mode = "none" -> lock

Released(lock, p) ==
    [writer |-> IF lock.writer = p THEN 0 ELSE lock.writer,
     readers |-> lock.readers \ {p}]

NoLock == [writer |-> 0, readers |-> {}]

\* The token-required middleware: 401 unless the store returns the token.
withAuthorizationRequired(got) == IF got = "nil" THEN "401" ELSE "next"

IdleCall == [op |-> "none", arg |-> <<>>, i |-> 0, tok |-> <<>>, res |-> "none",
             invIssued |-> {}, invMember |-> FALSE]

\* Tokens an earlier process has issued and saved: two that the random
\* source of the model can draw again and two that it cannot.
EarlierTokens ==
    << FormatX(RawA), FormatX([RawA EXCEPT ![1] = 162]),
       FormatX([RawA EXCEPT ![1] = 177]), FormatX([RawA EXCEPT ![1] = 178]) >>

\* The files a token store can be constructed from at startup: none, a
\* zero-length one, one that lists a token of the wrong length, the text
\* null, lists with a token that Marshal escapes, and the file an earlier
\* process has saved its tokens to.
InitFiles ==
    {"absent", <<>>, JsonMarshal(<<ShortToken>>, "go1.15"), BytesOf("null"),
     BytesOf("[\"<\"]"), BytesOf("[\"\\b\"]"), JsonMarshal(EarlierTokens, "go1.15")}

TokInitFrom(files) ==
    /\ tsKind \in {"file", "memory"}
    /\ tsGo \in (IF tsKind = "memory" THEN {"go1.15"} ELSE Toolchains)
    /\ tsFile \in (IF tsKind = "memory" THEN {"absent"} ELSE files)
    /\ tsTokens = (IF tsKind = "memory" THEN {} ELSE NewFileStore(tsFile).tokens)
    /\ tsLock = NoLock
    /\ tpc = [p \in Callers |-> "idle"]
    /\ top = [p \in Callers |-> IdleCall]
    /\ tsIssued = <<>>
    /\ tsSaved = {}
    /\ tsLoaded = "none"
    /\ tcalls = 0

TokInit == TokInitFrom({"absent"})

TokFileInit == TokInitFrom(InitFiles)

\* No token store is in use.
TokIdle ==
    /\ tsKind = "memory" /\ tsGo = "go1.15" /\ tsFile = "absent" /\ tsTokens = {} /\ tsLock = NoLock
    /\ tpc = [p \in Callers |-> "idle"] /\ top = [p \in Callers |-> IdleCall]
    /\ tsIssued = <<>> /\ tsSaved = {} /\ tsLoaded = "none" /\ tcalls = 0

\* A caller starts a call. The MemoryStore is not re-entrant: it is only
\* called while no other call is in progress.
Invoke(p, o, a) ==
    /\ tpc[p] \in {"idle", "done"}
    /\ tcalls < MaxCalls
    /\ tsKind = "memory" => \A q \in Callers : tpc[q] \in {"idle", "done"}
    /\ tpc' = [tpc EXCEPT ![p] = "wait"]
    /\ top' = [top EXCEPT ![p] =
                  [IdleCall EXCEPT !.op = o, !.arg = a,
                                   !.invIssued = IF o \in {"exists", "save"}
                                                 THEN Range(tsIssued) ELSE {},
                                   !.invMember = (o = "auth" /\ a \in tsTokens)]]
    /\ tcalls' = tcalls + 1
    /\ UNCHANGED <<tsKind, tsGo, tsTokens, tsLock, tsFile, tsIssued, tsSaved, tsLoaded>>
    /\ UNCHANGED nonTokVars

\* store.lock.Lock() or store.lock.RLock() at the head of a FileStore method.
FileStoreLock(p) ==
    /\ tpc[p] = "wait"
    /\ CanAcquire(tsLock, LockModeOf(tsKind, top[p].op))
    /\ tsLock' = Acquired(tsLock, LockModeOf(tsKind, top[p].op), p)
    /\ tpc' = [tpc EXCEPT ![p] = "crit"]
    /\ UNCHANGED <<tsKind, tsGo, tsTokens, tsFile, top, tsIssued, tsSaved, tsLoaded, tcalls>>
    /\ UNCHANGED nonTokVars

\* The call returns: its deferred Unlock runs and the result is set.
Finish(p, r) ==
    /\ tpc' = [tpc EXCEPT ![p] = "done"]
    /\ top' = [top EXCEPT ![p].res = r, ![p].i = 0, ![p].invMember = FALSE]
    /\ tsLock' = Released(tsLock, p)

\* Another goroutine is in the middle of writing the map.
Racing(p) == \E q \in Callers \ {p} : tpc[q] = "insert"

\* MemoryStore.New, one iteration of the loop: rand.Read fails, or the token
\* drawn is in the map already, or it is free and is about to be stored.
NewDraw(p) ==
    /\ tpc[p] = "crit" /\ top[p].op = "new"
    /\ top[p].i < maxAttempts
    /\ \/ /\ Finish(p, "rngerr")
          /\ UNCHANGED <<tsTokens, tsIssued>>
       \/ \E raw \in RawValues :
            LET token == FormatX(raw) IN
            IF token \notin tsTokens
            THEN /\ tpc' = [tpc EXCEPT ![p] = "insert"]
                 /\ top' = [top EXCEPT ![p].tok = token, ![p].i = 0]
                 /\ UNCHANGED <<tsLock, tsTokens, tsIssued>>
            ELSE /\ top' = [top EXCEPT ![p].i = @ + 1]
                 /\ UNCHANGED <<tpc, tsLock, tsTokens, tsIssued>>
    /\ UNCHANGED <<tsKind, tsGo, tsFile, tsSaved, tsLoaded, tcalls>>
    /\ UNCHANGED nonTokVars

\* MemoryStore.New: store[token] = true; return &token.
NewInsert(p) ==
    /\ tpc[p] = "insert"
    /\ tsTokens' = tsTokens \cup {top[p].tok}
    /\ tsIssued' = Append(tsIssued, top[p].tok)
    /\ Finish(p, top[p].tok)
    /\ UNCHANGED <<tsKind, tsGo, tsFile, tsSaved, tsLoaded, tcalls>>
    /\ UNCHANGED nonTokVars

\* A loop that gives up after the first collision.
NewExhaustedEarly(p) ==
    /\ tpc[p] = "crit" /\ top[p].op = "new"
    /\ top[p].i >= 1
    /\ Finish(p, "exhausted")
    /\ UNCHANGED <<tsKind, tsGo, tsTokens, tsFile, tsIssued, tsSaved, tsLoaded, tcalls>>
    /\ UNCHANGED nonTokVars

\* MemoryStore.New: the loop ends after maxAttempts collisions.
NewExhausted(p) ==
    /\ tpc[p] = "crit" /\ top[p].op = "new"
    /\ top[p].i >= maxAttempts
    /\ Finish(p, "exhausted")
    /\ UNCHANGED <<tsKind, tsGo, tsTokens, tsFile, tsIssued, tsSaved, tsLoaded, tcalls>>
    /\ UNCHANGED nonTokVars

\* FileStore.Exists / MemoryStore.Exists. A read of the map while another
\* goroutine writes it is a data race: any result.
ExistsBody(p) ==
    /\ tpc[p] = "crit" /\ top[p].op = "exists"
    /\ \E r \in (IF Racing(p) THEN BOOLEAN
                  ELSE {MemoryStoreExists(tsTokens, top[p].arg)}) : Finish(p, r)
    /\ UNCHANGED <<tsKind, tsGo, tsTokens, tsFile, tsIssued, tsSaved, tsLoaded, tcalls>>
    /\ UNCHANGED nonTokVars

\* A request through the token-required middleware: tokenStore.Get(r)
\* (FileStore.Get / MemoryStore.Get), then 401 or the wrapped handler.
AuthBody(p) ==
    /\ tpc[p] = "crit" /\ top[p].op = "auth"
    /\ \E r \in (IF Racing(p) THEN {"nil", top[p].arg}
                  ELSE {MemoryStoreGet(tsTokens, top[p].arg)}) :
            Finish(p, withAuthorizationRequired(r))
    /\ UNCHANGED <<tsKind, tsGo, tsTokens, tsFile, tsIssued, tsSaved, tsLoaded, tcalls>>
    /\ UNCHANGED nonTokVars

\* What a Save whose f.Write fails can leave in the file: the first n bytes
\* of the text over what the file held, for every n short of the whole text
\* (os.File.Write returns the number of bytes written with the error).
FailedWrites(file, text) ==
    { WriteFile(file, SubSeq(text, 1, n)) : n \in 0..(Len(text) - 1) }

\* MemoryStore.Save is a no-op. FileStore.Save: the file cannot be opened,
\* or the tokens are marshalled in the map's iteration order and the write
\* fails after some of the bytes, or all of them are written.  tsSaved is
\* empty again once a failing write has changed the file.
SaveBody(p) ==
    /\ tpc[p] = "crit" /\ top[p].op = "save"
    /\ IF tsKind = "memory"
       THEN /\ Finish(p, "ok")
            /\ UNCHANGED <<tsFile, tsSaved, tsLoaded>>
       ELSE \/ /\ Finish(p, "err")
               /\ UNCHANGED <<tsFile, tsSaved, tsLoaded>>
            \/ \E order \in Orderings(tsTokens) :
                 \E left \in FailedWrites(tsFile, JsonMarshal(order, tsGo)) :
                    /\ tsFile' = left
                    /\ tsSaved' = IF tsFile = "absent" \/ left = tsFile THEN tsSaved ELSE {}
                    /\ Finish(p, "err")
                    /\ UNCHANGED tsLoaded
            \/ \E order \in Orderings(tsTokens) :
                 /\ tsFile' = WriteFile(tsFile, JsonMarshal(order, tsGo))
                 /\ tsSaved' = tsSaved \cup top[p].invIssued
                 /\ tsLoaded' = "none"
                 /\ Finish(p, "ok")
    /\ UNCHANGED <<tsKind, tsGo, tsTokens, tsIssued, tcalls>>
    /\ UNCHANGED nonTokVars

\* tokens.NewStore(path) on the path of the current store, as a restart or a
\* configuration reload does: on success the new store replaces the old one.
\* It is no call on the store and is not counted.
Reopen ==
    /\ tsKind = "file"
    /\ \A q \in Callers : tpc[q] \in {"idle", "done"}
    /\ LET made == NewFileStore(tsFile) IN
       IF made.ok
       THEN /\ tsTokens' = made.tokens
            /\ tsIssued' = <<>>
            /\ tsLoaded' = "ok"
       ELSE /\ tsLoaded' = "err"
            /\ UNCHANGED <<tsTokens, tsIssued>>
    /\ tpc' = [p \in Callers |-> "idle"]
    /\ top' = [p \in Callers |-> IdleCall]
    /\ UNCHANGED <<tsKind, tsGo, tsLock, tsFile, tsSaved, tcalls>>
    /\ UNCHANGED nonTokVars

(***************************************************************************)
(* Webhooks: hooks.Webhook, hooks.WebhookStore and the /webhooks handlers.  *)
(***************************************************************************)
\* The hook ids in use.
HookIds == {"h1", "h2"}

\* A nil *Webhook.
NilHook == [nil |-> TRUE]

\* events.IsValidEvent
IsValidEvent(event) == event \in {"push"}

\* The repository names of the configuration (config.RepositorySet()).
ConfigRepos == {"other", "repo"}

\* net/url, as far as Validate depends on it.
HasPrefix(s, pre) == Len(s) >= Len(pre) /\ SubSeq(s, 1, Len(pre)) = pre

\* strings.Index and strings.LastIndex for one byte, counted from 1; 0 when
\* the byte does not occur.
StrIndex(s, c) ==
    LET at == { i \in 1..Len(s) : CharAt(s, i) = c }
    IN IF at = {} THEN 0 ELSE CHOOSE i \in at : \A j \in at : i <= j

StrLastIndex(s, c) ==
    LET at == { i \in 1..Len(s) : CharAt(s, i) = c }
    IN IF at = {} THEN 0 ELSE CHOOSE i \in at : \A j \in at : j <= i

\* s[i:] of Go for the position i counted from 1.
StrFrom(s, i) == SubSeq(s, i, Len(s))

\* strings.ToLower on ASCII.
LowerChar(c) ==
    IF c \in UpperBytes
    THEN CharAt(LowerLetters, StrIndex(UpperLetters, c))
    ELSE c

RECURSIVE ToLower(_)
ToLower(s) == IF Len(s) = 0 THEN "" ELSE LowerChar(CharAt(s, 1)) \o ToLower(StrFrom(s, 2))

\* getScheme: the position of the colon that ends the scheme, 0 when the
\* text has no scheme, -1 for "missing protocol scheme" (a colon in front).
RECURSIVE SchemeColon(_, _)
SchemeColon(u, i) ==
    IF i > Len(u) THEN 0
    ELSE LET c == CharAt(u, i) IN
         IF c \in LetterBytes THEN SchemeColon(u, i + 1)
         ELSE IF c \in DigitBytes \cup {"+", "-", "."}
              THEN IF i = 1 THEN 0 ELSE SchemeColon(u, i + 1)
         ELSE IF c = ":" THEN IF i = 1 THEN -1 ELSE i
         ELSE 0

\* stringContainsCTLByte, for the control bytes a TLA+ string can hold.
HasCTLByte(s) == \E c \in CharsOf(s) : ByteVal[c] < 32 \/ ByteVal[c] = 127

\* unescape: a "%" that is not followed by two hexadecimal digits.
BadEscape(s) ==
    \E i \in 1..Len(s) :
        /\ CharAt(s, i) = "%"
        /\ \/ i + 2 > Len(s)
           \/ CharAt(s, i + 1) \notin HexByteSet
           \/ CharAt(s, i + 2) \notin HexByteSet

\* The bytes shouldEscape(c, encodeHost) lets stand in a host.
HostBytes == LetterBytes \cup DigitBytes \cup CharsOf("!$&'()*+,;=:[]<>\"-_.~")

\* A "%" at i that is not followed by two hexadecimal digits.
BadEscapeAt(s, i) ==
    \/ i + 2 > Len(s)
    \/ CharAt(s, i + 1) \notin HexByteSet
    \/ CharAt(s, i + 2) \notin HexByteSet

\* The byte that the escape at i stands for.
EscapeValue(s, i) == HexValues[CharAt(s, i + 1)] * 16 + HexValues[CharAt(s, i + 2)]

\* unescape(host, encodeHost): besides bad escapes, an escape of an ASCII
\* byte other than "%25", and every byte that a host may not hold.
BadHostText(s) ==
    \E i \in 1..Len(s) :
        IF CharAt(s, i) = "%"
        THEN \/ BadEscapeAt(s, i)
             \/ CharAt(s, i + 1) \in CharsOf("01234567") /\ SubSeq(s, i, i + 2) # "%25"
        ELSE CharAt(s, i) \notin HostBytes

\* unescape(zone, encodeZone): besides bad escapes, an escape other than
\* "%25" and "%20" of a byte that a host may not hold, and every such byte
\* itself.
BadZoneText(s) ==
    \E i \in 1..Len(s) :
        IF CharAt(s, i) = "%"
        THEN \/ BadEscapeAt(s, i)
             \/ /\ SubSeq(s, i, i + 2) # "%25"
                /\ EscapeValue(s, i) # 32
                /\ ByteNames[EscapeValue(s, i)] \notin HostBytes
        ELSE CharAt(s, i) \notin HostBytes

\* validOptionalPort: empty, or a colon and decimal digits.
ValidOptionalPort(port) ==
    \/ Len(port) = 0
    \/ CharAt(port, 1) = ":" /\ CharsOf(StrFrom(port, 2)) \subseteq DigitBytes

\* parseHost: "" or the error.
ParseHostError(host) ==
    IF HasPrefix(host, "[")
    THEN LET close == StrLastIndex(host, "]")
             zone == { i \in 1..(close - 3) : SubSeq(host, i, i + 2) = "%25" }
         IN IF close = 0 THEN "missing ']' in host"
            ELSE IF ~ValidOptionalPort(StrFrom(host, close + 1)) THEN "invalid port"
            ELSE IF zone # {}
                 THEN LET z == CHOOSE i \in zone : \A j \in zone : i <= j
                      IN IF BadHostText(SubSeq(host, 1, z - 1)) \/ BadZoneText(SubSeq(host, z, close - 1))
                         THEN "invalid host" ELSE ""
            ELSE IF BadHostText(host) THEN "invalid host"
            ELSE ""
    ELSE IF /\ StrLastIndex(host, ":") # 0
            /\ ~ValidOptionalPort(StrFrom(host, StrLastIndex(host, ":")))
         THEN "invalid port"
    ELSE IF BadHostText(host) THEN "invalid host"
    ELSE ""

\* validUserinfo and the unescape of user and password.
BadUserinfo(userinfo) ==
    \/ ~(CharsOf(userinfo) \subseteq UserinfoBytes)
    \/ BadEscape(userinfo)

\* parseAuthority after parseHost: the error of the host, or of the userinfo.
UserinfoError(hostError, userinfo) ==
    IF hostError # "" THEN hostError
    ELSE IF BadUserinfo(userinfo) THEN "invalid userinfo"
    ELSE ""

\* parseAuthority: "" or the error.
ParseAuthorityError(authority) ==
    LET at == StrLastIndex(authority, "@")
    IN IF at = 0 THEN ParseHostError(authority)
       ELSE UserinfoError(ParseHostError(StrFrom(authority, at + 1)),
                          SubSeq(authority, 1, at - 1))

\* The result of url.Parse: the error ("" for none) and the Scheme.
UrlFailed(e) == [err |-> e, scheme |-> ""]

UrlParsed(scheme) == [err |-> "", scheme |-> scheme]

\* parse, from the authority on: parseAuthority and setPath.
ParseWithAuthority(scheme, authorityError, path) ==
    IF authorityError # "" THEN UrlFailed(authorityError)
    ELSE IF BadEscape(path) THEN UrlFailed("invalid URL escape")
    ELSE UrlParsed(scheme)

\* parse, after "//": the authority runs up to the next "/".
ParseAfterSlashes(scheme, afterSlashes) ==
    LET pathAt == StrIndex(afterSlashes, "/")
    IN ParseWithAuthority(scheme,
           ParseAuthorityError(IF pathAt = 0 THEN afterSlashes
                               ELSE SubSeq(afterSlashes, 1, pathAt - 1)),
           IF pathAt = 0 THEN "" ELSE StrFrom(afterSlashes, pathAt))

\* A colon in the first path segment of rest.
ColonInFirstSegment(colon, slash) == colon # 0 /\ (slash = 0 \/ colon < slash)

\* parse, after the scheme and without the query.
ParseRest(scheme, rest) ==
    IF ~HasPrefix(rest, "/") /\ scheme # "" THEN UrlParsed(scheme)
    ELSE IF ~HasPrefix(rest, "/") /\ ColonInFirstSegment(StrIndex(rest, ":"), StrIndex(rest, "/"))
         THEN UrlFailed("first path segment in URL cannot contain colon")
    ELSE IF HasPrefix(rest, "//") /\ (scheme # "" \/ ~HasPrefix(rest, "///"))
         THEN ParseAfterSlashes(scheme, StrFrom(rest, 3))
    ELSE IF BadEscape(rest) THEN UrlFailed("invalid URL escape")
    ELSE UrlParsed(scheme)

\* split(rest, '?', true): the text in front of the first "?".
BeforeQuery(s, query) == IF query = 0 THEN s ELSE SubSeq(s, 1, query - 1)

\* parse, after getScheme.
ParseAfterScheme(u, colon) ==
    IF colon = -1 THEN UrlFailed("missing protocol scheme")
    ELSE IF colon = 0 THEN ParseRest("", BeforeQuery(u, StrIndex(u, "?")))
    ELSE ParseRest(ToLower(SubSeq(u, 1, colon - 1)),
                   BeforeQuery(StrFrom(u, colon + 1), StrIndex(StrFrom(u, colon + 1), "?")))

\* parse(rawurl, false) of a text without fragment.
ParseNoFragment(u) ==
    IF HasCTLByte(u) THEN UrlFailed("invalid control character in URL")
    ELSE IF u = "*" THEN UrlParsed("")
    ELSE ParseAfterScheme(u, SchemeColon(u, 1))

\* setFragment on what parse returned.
SetFragment(url, frag) ==
    IF url.err # "" THEN url
    ELSE IF BadEscape(frag) THEN UrlFailed("invalid URL escape")
    ELSE url

\* split(rawurl, '#', true)
BeforeFragment(s, hash) == IF hash = 0 THEN s ELSE SubSeq(s, 1, hash - 1)

AfterFragment(s, hash) == IF hash = 0 THEN "" ELSE StrFrom(s, hash + 1)

\* url.Parse(rawurl): the error ("" for none) and the Scheme of the URL.
UrlParse(rawurl) ==
    SetFragment(ParseNoFragment(BeforeFragment(rawurl, StrIndex(rawurl, "#"))),
                AfterFragment(rawurl, StrIndex(rawurl, "#")))

\* url.Parse is a function of the text alone: its results for the URLs that
\* requests and store files carry here are worked out once.
KnownUrls ==
    {"http://example.com/1/", "https://example.com/2/", "https://example.com/some-path/?foo",
     "ftp://example.com", "HTTP://example.com", "http://[::1"}

KnownUrlParse == [u \in KnownUrls |-> UrlParse(u)]

UrlParseOnce(rawurl) ==
    IF rawurl \in KnownUrls THEN KnownUrlParse[rawurl] ELSE UrlParse(rawurl)

\* A Validate that does not check the length of the secret.
WebhookValidateAnySecret(hook, repos) ==
    IF Len(hook.events) = 0 THEN "Hook has no events."
    ELSE IF \E i \in DOMAIN hook.events : ~IsValidEvent(hook.events[i]) THEN "Invalid event"
    ELSE IF Len(hook.repos) = 0 THEN "Hook has no repositories."
    ELSE IF \E i \in DOMAIN hook.repos : hook.repos[i] \notin repos THEN "Invalid repository"
    ELSE LET url == UrlParseOnce(hook.url) IN
    IF url.err # "" THEN "Invalid URL"
    ELSE IF url.scheme \notin {"http", "https"} THEN "Invalid URL scheme"
    ELSE ""

\* Webhook.Validate: "" when the hook is valid, otherwise the error.
WebhookValidate(hook, repos) ==
    IF Len(hook.events) = 0 THEN "Hook has no events."
    ELSE IF \E i \in DOMAIN hook.events : ~IsValidEvent(hook.events[i]) THEN "Invalid event"
    ELSE IF Len(hook.repos) = 0 THEN "Hook has no repositories."
    ELSE IF \E i \in DOMAIN hook.repos : hook.repos[i] \notin repos THEN "Invalid repository"
    ELSE LET url == UrlParseOnce(hook.url) IN
    IF url.err # "" THEN "Invalid URL"
    ELSE IF url.scheme \notin {"http", "https"} THEN "Invalid URL scheme"
    ELSE IF Len(hook.secret) < 20 THEN "Secret is too short"
    ELSE ""

\* A key the map does not hold. The map is a function on HookIds, and an
\* entry is NoEntry (the key is absent), NilHook (the key is present with a
\* nil pointer) or a hook.
NoEntry == [missing |-> TRUE]

\* make(WebhookStore): a map without entries.
EmptyStore == [k \in HookIds |-> NoEntry]

\* store[id] of a Go map: the zero value (a nil pointer) for a missing key.
HookLookup(store, id) == IF store[id] = NoEntry THEN NilHook ELSE store[id]

\* The keys of the map.
StoreKeys(store) == { k \in HookIds : store[k] # NoEntry }

HookPut(store, id, hook) == [store EXCEPT ![id] = hook]

HookDelete(store, id) == [store EXCEPT ![id] = NoEntry]

\* WebhookStore.Save(path): creating the temporary file fails ("err"), or
\* Write dereferences every entry, so that a nil entry panics; otherwise
\* writing or renaming the temporary file fails ("err"), or the rename puts
\* the new content in place ("ok").
HookSaveOutcomes(store) ==
    IF \E k \in StoreKeys(store) : store[k] = NilHook THEN {"panic", "err"} ELSE {"ok", "err"}

\* The content of the store file after a successful Save.
HookSaved(store) == [exists |-> TRUE, hooks |-> { store[k] : k \in StoreKeys(store) }]

\* There is no file at the path.
NoHookFile == [exists |-> FALSE, hooks |-> {}]

(***************************************************************************)
(* Loading a webhook store and iterating over it: ReadStore, validateHook, *)
(* contains and ForEach (repositories/hooks/store.go).                     *)
(***************************************************************************)
\* Go compares strings byte by byte.
CharRank(c) == ByteVal[c]

\* a < b on Go strings.
RECURSIVE StrLess(_, _)
StrLess(a, b) ==
    IF Len(b) = 0 THEN FALSE
    ELSE IF Len(a) = 0 THEN TRUE
    ELSE IF SubSeq(a, 1, 1) = SubSeq(b, 1, 1)
    THEN StrLess(SubSeq(a, 2, Len(a)), SubSeq(b, 2, Len(b)))
    ELSE CharRank(SubSeq(a, 1, 1)) < CharRank(SubSeq(b, 1, 1))

\* sort.Strings: x put into the ascending list.
RECURSIVE InsertSorted(_, _)
InsertSorted(list, x) ==
    IF Len(list) = 0 THEN <<x>>
    ELSE IF StrLess(x, Head(list)) THEN <<x>> \o list
    ELSE <<Head(list)>> \o InsertSorted(Tail(list), x)

RECURSIVE SortStrings(_)
SortStrings(list) ==
    IF Len(list) = 0 THEN <<>>
    ELSE InsertSorted(SortStrings(Tail(list)), Head(list))

\* validateHook: the events of the hook that IsValidEvent accepts, in order.
ValidEvents(hook) == SelectSeq(hook.events, IsValidEvent)

\* A validateHook that keeps every repository of the hook.
ValidReposUnchecked(hook, repos) == hook.repos

\* validateHook: the repositories of the hook that are in `repos`, in order.
ValidRepos(hook, repos) ==
    LET known(r) == r \in repos IN SelectSeq(hook.repos, known)

\* A validateHook that does not sort the lists.
validateHookUnsorted(hook, repos) ==
    IF Len(ValidEvents(hook)) = 0 \/ Len(ValidRepos(hook, repos)) = 0
    THEN [ok |-> FALSE, hook |-> hook]
    ELSE [ok |-> TRUE,
          hook |-> [hook EXCEPT !.events = ValidEvents(hook),
                                !.repos = ValidRepos(hook, repos)]]

\* validateHook: whether the hook is kept, and the hook with its lists
\* stripped and sorted.
validateHook(hook, repos) ==
    IF Len(ValidEvents(hook)) = 0 \/ Len(ValidRepos(hook, repos)) = 0
    THEN [ok |-> FALSE, hook |-> hook]
    ELSE [ok |-> TRUE,
          hook |-> [hook EXCEPT !.events = SortStrings(ValidEvents(hook)),
                                !.repos = SortStrings(ValidRepos(hook, repos))]]

\* ReadStore: the raw entries are validated in order; a later valid entry
\* replaces an earlier one with the same id.
RECURSIVE ReadStoreFrom(_, _, _)
ReadStoreFrom(raw, repos, store) ==
    IF Len(raw) = 0 THEN store
    ELSE LET v == validateHook(Head(raw), repos) IN
         ReadStoreFrom(Tail(raw), repos,
                       IF v.ok THEN HookPut(store, v.hook.id, v.hook) ELSE store)

ReadStore(raw, repos) == ReadStoreFrom(raw, repos, EmptyStore)

\* sort.SearchStrings: the smallest index in [0, n) (from 0) at which the
\* entry is >= x, found by binary search between i and j; n if none.
RECURSIVE SearchStringsIn(_, _, _, _)
SearchStringsIn(a, x, i, j) ==
    IF i >= j THEN i
    ELSE LET h == (i + j) \div 2 IN
         IF StrLess(a[h + 1], x)
         THEN SearchStringsIn(a, x, h + 1, j)
         ELSE SearchStringsIn(a, x, i, h)

SearchStrings(a, x) == SearchStringsIn(a, x, 0, Len(a))

\* contains(haystack, needle)
contains(haystack, needle) ==
    LET index == SearchStrings(haystack, needle) IN
    index # Len(haystack) /\ haystack[index + 1] = needle

\* The condition of ForEach for calling f on a hook.
ForEachMatches(hook, event, repoName) ==
    hook.enabled /\ contains(hook.repos, repoName) /\ contains(hook.events, event)

\* The list is in ascending order.
IsSorted(list) ==
    \A i \in 1..(Len(list) - 1) : ~StrLess(list[i + 1], list[i])

\* deleteHook on a failed save: api.hookStore[hookId] = hook.
DeleteRevert(store, id, hook) == HookPut(store, id, hook)

\* What the requests of the model carry.

Secret20 == "aaaaaaaaaaaaaaaaaaaa"
Secret19 == "aaaaaaaaaaaaaaaaaaa"

BaseHook(id) ==
    [id |-> id, url |-> "http://example.com/1/", secret |-> Secret20,
     enabled |-> TRUE, events |-> <<"push">>, repos |-> <<"repo">>]

CreateBodies ==
    UNION { { BaseHook(id),
              [BaseHook(id) EXCEPT !.repos = <<"repo", "other">>, !.enabled = FALSE] }
            : id \in HookIds }
    \cup { [BaseHook("h2") EXCEPT !.events = <<>>],
           [BaseHook("h2") EXCEPT !.events = <<"push", "pull">>],
           [BaseHook("h2") EXCEPT !.repos = <<>>],
           [BaseHook("h2") EXCEPT !.repos = <<"ghost">>],
           [BaseHook("h2") EXCEPT !.url = "ftp://example.com"],
           [BaseHook("h2") EXCEPT !.url = "HTTP://example.com"],
           [BaseHook("h2") EXCEPT !.url = "http://[::1"],
           [BaseHook("h2") EXCEPT !.secret = Secret19] }

\* A PATCH body: each field is Absent (nil after decoding) or Some(value).
Absent == [absent |-> TRUE]

Some(v) == [v |-> v]

NoPatch == [id |-> Absent, url |-> Absent, secret |-> Absent,
            enabled |-> Absent, events |-> Absent, repos |-> Absent]

Patches ==
    { NoPatch,
      [NoPatch EXCEPT !.id = Some("h9")],
      [NoPatch EXCEPT !.url = Some("https://example.com/some-path/?foo")],
      [NoPatch EXCEPT !.url = Some("ftp://example.com")],
      [NoPatch EXCEPT !.url = Some("http://[::1")],
      [NoPatch EXCEPT !.secret = Some(Secret19)],
      [NoPatch EXCEPT !.enabled = Some(FALSE)],
      [NoPatch EXCEPT !.events = Some(<<>>)],
      [NoPatch EXCEPT !.repos = Some(<<"other">>)],
      [NoPatch EXCEPT !.repos = Some(<<"ghost">>)] }

\* An updateHook that ignores the url of the request.
ApplyPatchKeepUrl(hook, patch) ==
    [id |-> hook.id,
     url |-> hook.url,
     secret |-> IF patch.secret # Absent THEN patch.secret.v ELSE hook.secret,
     enabled |-> IF patch.enabled # Absent THEN patch.enabled.v ELSE hook.enabled,
     events |-> IF patch.events # Absent THEN patch.events.v ELSE hook.events,
     repos |-> IF patch.repos # Absent THEN patch.repos.v ELSE hook.repos]

\* updateHook: the fields of the request overwrite those of the hook.
ApplyPatch(hook, patch) ==
    [id |-> hook.id,
     url |-> IF patch.url # Absent THEN patch.url.v ELSE hook.url,
     secret |-> IF patch.secret # Absent THEN patch.secret.v ELSE hook.secret,
     enabled |-> IF patch.enabled # Absent THEN patch.enabled.v ELSE hook.enabled,
     events |-> IF patch.events # Absent THEN patch.events.v ELSE hook.events,
     repos |-> IF patch.repos # Absent THEN patch.repos.v ELSE hook.repos]

\* The two maps have the same keys and the same entries.
SameStore(a, b) == \A k \in HookIds : a[k] = b[k]

\* The handler has run: the store, the file and the response after it.
\* saveFailed: WebhookStore.Save returned an error in this request;
\* restored: the in-memory store is what it was before the request.
HookDone(op, id, status, store, file, failed) ==
    /\ hookStore' = store
    /\ hookFile' = file
    /\ hookResp' = [op |-> op, id |-> id, status |-> status, saveFailed |-> failed,
                    restored |-> SameStore(store, hookStore),
                    pre |-> hookStore, preFile |-> hookFile]
    /\ UNCHANGED nonHookVars

\* A panic in a handler is recovered by net/http: no response is written and
\* the deferred Unlock runs.
Aborted == 0

NoHookResp == [op |-> "none", id |-> "", status |-> 0, saveFailed |-> FALSE,
               restored |-> TRUE, pre |-> EmptyStore, preFile |-> NoHookFile]

\* A request without a body.
NoHookReq == [decoded |-> TRUE, hook |-> NilHook, patch |-> NoPatch]

\* No webhook store is in use.
HookIdle ==
    hookStore = EmptyStore /\ hookFile = NoHookFile /\ hookResp = NoHookResp /\ hookReq = NoHookReq

HookInit ==
    /\ \E ids \in SUBSET {"h1"} :
         /\ hookStore = [k \in HookIds |-> IF k \in ids THEN BaseHook(k) ELSE NoEntry]
         /\ hookFile = IF ids = {} THEN NoHookFile
                       ELSE HookSaved([k \in HookIds |-> IF k \in ids THEN BaseHook(k) ELSE NoEntry])
    /\ hookResp = NoHookResp
    /\ hookReq = NoHookReq

\* POST /webhooks
createHook(decoded, body) ==
    /\ hookReq' = [decoded |-> decoded, hook |-> body, patch |-> NoPatch]
    /\ IF ~decoded
       THEN HookDone("create", "", 400, hookStore, hookFile, FALSE)
       ELSE IF HookLookup(hookStore, body.id) # NilHook
       THEN HookDone("create", body.id, 400, hookStore, hookFile, FALSE)
       ELSE IF WebhookValidate(body, ConfigRepos) # ""
       THEN HookDone("create", body.id, 400, hookStore, hookFile, FALSE)
       ELSE LET stored == HookPut(hookStore, body.id, body) IN
            \E out \in HookSaveOutcomes(stored) :
               CASE out = "panic" -> HookDone("create", body.id, Aborted, stored, hookFile, FALSE)
                 [] out = "err" -> HookDone("create", body.id, 500,
                                            HookDelete(stored, body.id), hookFile, TRUE)
                 [] out = "ok" -> HookDone("create", body.id, 201, stored, HookSaved(stored), FALSE)

\* GET /webhooks/{hook-id}
getHook(id) ==
    /\ hookReq' = NoHookReq
    /\ IF HookLookup(hookStore, id) = NilHook
       THEN HookDone("get", id, 404, hookStore, hookFile, FALSE)
       ELSE HookDone("get", id, 200, hookStore, hookFile, FALSE)

\* DELETE /webhooks/{hook-id}. The 404 for an unknown id is written and the
\* handler goes on; a status written later does not replace it.
deleteHook(id) ==
    /\ hookReq' = NoHookReq
    /\ LET hook == HookLookup(hookStore, id)
           first == IF hook = NilHook THEN 404 ELSE 0
           removed == HookDelete(hookStore, id)
       IN \E out \in HookSaveOutcomes(removed) :
             CASE out = "panic" -> HookDone("delete", id, IF first # 0 THEN first ELSE Aborted,
                                            removed, hookFile, FALSE)
               [] out = "err" -> HookDone("delete", id, IF first # 0 THEN first ELSE 500,
                                          DeleteRevert(removed, id, hook), hookFile, TRUE)
               [] out = "ok" -> HookDone("delete", id, IF first # 0 THEN first ELSE 204,
                                         removed, HookSaved(removed), FALSE)

\* PATCH /webhooks/{hook-id}
updateHook(id, decoded, patch) ==
    /\ hookReq' = [decoded |-> decoded, hook |-> NilHook, patch |-> patch]
    /\ IF id \notin StoreKeys(hookStore)
       THEN HookDone("update", id, 404, hookStore, hookFile, FALSE)
       ELSE IF ~decoded
       THEN HookDone("update", id, 400, hookStore, hookFile, FALSE)
       ELSE IF hookStore[id] = NilHook
       THEN HookDone("update", id, Aborted, hookStore, hookFile, FALSE)
       ELSE IF patch.id # Absent
       THEN HookDone("update", id, 400, hookStore, hookFile, FALSE)
       ELSE IF WebhookValidate(ApplyPatch(hookStore[id], patch), ConfigRepos) # ""
       THEN HookDone("update", id, 400, hookStore, hookFile, FALSE)
       ELSE LET stored == HookPut(hookStore, id, ApplyPatch(hookStore[id], patch)) IN
            \E out \in HookSaveOutcomes(stored) :
               CASE out = "panic" -> HookDone("update", id, Aborted, stored, hookFile, FALSE)
                 [] out = "err" -> HookDone("update", id, 500,
                                            HookPut(stored, id, hookStore[id]), hookFile, TRUE)
                 [] out = "ok" -> HookDone("update", id, 200, stored, HookSaved(stored), FALSE)

\* GET /webhooks
getHooks ==
    /\ hookReq' = NoHookReq
    /\ HookDone("list", "", 200, hookStore, hookFile, FALSE)

HookNext ==
    \/ \E body \in CreateBodies : createHook(TRUE, body)
    \/ createHook(FALSE, BaseHook("h1"))
    \/ \E id \in HookIds : getHook(id)
    \/ \E id \in HookIds : deleteHook(id)
    \/ \E id \in HookIds, patch \in Patches : updateHook(id, TRUE, patch)
    \/ \E id \in HookIds : updateHook(id, FALSE, NoPatch)
    \/ getHooks

(***************************************************************************)
(* The API object and the serve loop: api.API (SetConfig, setConfigUnsafe, *)
(* Shutdown, Serve, the middlewares) and commands.Serve.                   *)
(*                                                                         *)
(* A configuration is [gen, fail]: gen numbers the configurations the      *)
(* watcher has produced (1 is the one the API was built from) and fail     *)
(* tells what goes wrong when it is applied ("none", ":memory:" as token   *)
(* store path, or the constructor that returns an error).  A field of the  *)
(* API object holds the gen of the configuration it was built from.        *)
(***************************************************************************)
NoCfg == [gen |-> 0, fail |-> "none"]

CfgFailures == {"none", "memory", "tokens", "htpasswd", "hooks"}

ApiOf(gen) == [config |-> gen, tokenStore |-> gen, secrets |-> gen, hookStore |-> gen]

\* tokens.NewStore(newConfig.TokenStorePath) returns an error.
NewStoreFails(cfg) == cfg.fail = "tokens"

\* newHtpasswdSecretProvider(newConfig.HtpasswdPath) returns an error.
ProviderFails(cfg) == cfg.fail = "htpasswd"

\* hooks.LoadStore(newConfig.WebhookStorePath, ...) returns an error.
LoadStoreFails(cfg) == cfg.fail = "hooks"

\* A serve loop that takes no token store path for ":memory:".
IsMemoryStoreNever(cfg) == FALSE

\* cfg.TokenStorePath == ":memory:"
IsMemoryStore(cfg) == cfg.fail = "memory"

\* installHooks(cfg, configPath, false): the configuration whose repositories
\* InstallHooks is called on.
installHooks(cfg) == cfg.gen

\* A token file that lists the tokens (no file and an empty file list none),
\* and one that json.Unmarshal refuses.
DiskOf(tokens) == [json |-> TRUE, tokens |-> tokens]

NotJson == [json |-> FALSE, tokens |-> {}]

\* FileStore.Save: the file holds the tokens of the store.
FileStoreSave(tokens) == DiskOf(tokens)

\* FileStore.Save returns an error.  os.OpenFile fails, or f.Write fails
\* after n bytes of the text, which then lie over the start of the file (no
\* temporary file, no O_TRUNC).  Every token takes TokenSize bytes, so the
\* j-th token of the text lies over the j-th of the file: the file then
\* lists as many tokens as before, the first of them from the store, the last
\* of them its own, and between them at most one that is spliced from two
\* tokens (0, which is no token of NewToken).  When the write ends behind the
\* end of the file, or the file was missing or empty, the text is cut and no
\* JSON.
FileStoreSaveFails(disk, tokens) ==
    LET k == Cardinality(disk.tokens)
        m == Cardinality(tokens)
        parts == { p \in (SUBSET tokens) \X {{}, {0}} \X (SUBSET disk.tokens) :
                     /\ k > 0
                     /\ Cardinality(p[1]) + Cardinality(p[2]) <= m
                     /\ Cardinality(p[1]) + Cardinality(p[2]) + Cardinality(p[3]) = k }
    IN {disk}
       \cup (IF k = 0 \/ m > k THEN {NotJson} ELSE {})
       \cup { DiskOf(p[1] \cup p[2] \cup p[3]) : p \in parts }

\* tokens.NewStore(path) on the path every configuration of the model names:
\* the new store holds the tokens of the file.  The serve loop calls it on
\* a file that a Save without error has left: an error of Save ends the
\* process before SetConfig.
NewStoreTokens(disk) == disk.tokens

\* The token the session endpoint issues for the n-th request.
NewToken(n) == n

\* A setConfigUnsafe that installs each store as soon as it is built.
setConfigUnsafeEager(api, cfg) ==
    IF NewStoreFails(cfg) THEN [err |-> TRUE, api |-> api]
    ELSE IF ProviderFails(cfg)
    THEN [err |-> TRUE, api |-> [api EXCEPT !.tokenStore = cfg.gen]]
    ELSE IF LoadStoreFails(cfg)
    THEN [err |-> TRUE, api |-> [api EXCEPT !.tokenStore = cfg.gen, !.secrets = cfg.gen]]
    ELSE [err |-> FALSE, api |-> api]

\* setConfigUnsafe up to its first assignment: the three constructions, each
\* returning its error at once.  The API object is not written.
setConfigUnsafe(api, cfg) ==
    IF NewStoreFails(cfg) THEN [err |-> TRUE, api |-> api]
    ELSE IF ProviderFails(cfg) THEN [err |-> TRUE, api |-> api]
    ELSE IF LoadStoreFails(cfg) THEN [err |-> TRUE, api |-> api]
    ELSE [err |-> FALSE, api |-> api]

\* The assignments of setConfigUnsafe, in order.
AssignOrder == <<"tokenStore", "secrets", "config", "hookStore">>

\* A setConfigUnsafe that leaves api.hookStore as it was.
AssignFieldButHookStore(api, field, cfg) ==
    IF field = "hookStore" THEN api ELSE [api EXCEPT ![field] = cfg.gen]

\* api.<field> = <what was built from newConfig>
AssignField(api, field, cfg) == [api EXCEPT ![field] = cfg.gen]

\* The fields of the API object a request reads, step by step:
\* /session: the authenticator (Secrets), then getSession (tokenStore.New);
\* /repos/...: withAuthorizationRequired, then withRepository;
\* POST /webhooks: withAuthorizationRequired, then createHook.
RouteReads ==
    [session |-> << {"secrets"}, {"tokenStore"} >>,
     repos |-> << {"tokenStore"}, {"config"} >>,
     webhooks |-> << {"tokenStore"}, {"hookStore"}, {"config"}, {"hookStore", "config"} >>]

Routes == DOMAIN RouteReads

Handlers == 1..NumHandlers

IdleHandler == [pc |-> "idle", route |-> "repos", k |-> 0, seen |-> {}, start |-> 0]

Running(h) == hnd[h].pc = "run"

\* The http.Server the listener goroutine belongs to has been shut down:
\* api.Shutdown has begun, or has returned and api.Serve has not been called
\* again yet (a goroutine that is still about at "serve" is the one of the
\* server of the previous iteration).
ServerClosed == loopPc \notin {"select", "shutdown"}

FreeLock == [writer |-> FALSE, reader |-> FALSE]

\* The process has not ended (return from Serve, log.Fatal, or a signal).
ProcessAlive == loopPc \notin {"exited", "fatal", "killed"}

ReloadFailures == {"load", "memory", "setconfig"}

\* The state after api.New(cfg) on the first configuration, at `for {`.
ServeInit ==
    /\ loopPc = "serve"
    /\ listener = "none"
    /\ lateListeners = 0
    /\ cfgLock = FreeLock
    /\ shouldExit = FALSE
    /\ sigintReset = FALSE
    /\ newCfg = NoCfg
    /\ cfgCount = 1
    /\ apiCfg = ApiOf(1)
    /\ applied = 1
    /\ scStep = 0
    /\ reloadOutcome = "none"
    /\ reloadPre = ApiOf(1)
    /\ hnd = [h \in Handlers |-> IdleHandler]
    /\ hcalls = 0
    /\ serveCfg = [gen |-> 1, fail |-> "none"]
    /\ hooksFor = 1
    /\ stTokens = [g \in 0..MaxConfigs |-> {}]
    /\ tokDisk = DiskOf({})
    /\ tokIssued = {}

\* commands.Serve is entered: the watcher has not delivered anything yet.
ServeBoot ==
    /\ loopPc = "start"
    /\ listener = "none"
    /\ lateListeners = 0
    /\ cfgLock = FreeLock
    /\ shouldExit = FALSE
    /\ sigintReset = FALSE
    /\ newCfg = NoCfg
    /\ cfgCount = 0
    /\ apiCfg = ApiOf(0)
    /\ applied = 0
    /\ scStep = 0
    /\ reloadOutcome = "none"
    /\ reloadPre = ApiOf(0)
    /\ hnd = [h \in Handlers |-> IdleHandler]
    /\ hcalls = 0
    /\ serveCfg = NoCfg
    /\ hooksFor = 0
    /\ stTokens = [g \in 0..MaxConfigs |-> {}]
    /\ tokDisk = DiskOf({})
    /\ tokIssued = {}

\* The first select of commands.Serve up to `for {`: an error of the watcher
\* is fatal; the first configuration gets its hooks installed, is refused
\* when its token store is ":memory:", and api.New builds the API from it
\* (an error of setConfigUnsafe is fatal).
ServeStart(loads, fail) ==
    /\ loopPc = "start"
    /\ IF ~loads
       THEN /\ loopPc' = "fatal"
            /\ UNCHANGED <<serveCfg, hooksFor, cfgCount, apiCfg, applied, reloadPre>>
       ELSE LET c == [gen |-> 1, fail |-> fail]
                r == setConfigUnsafe(apiCfg, c)
            IN /\ serveCfg' = c
               /\ cfgCount' = 1
               /\ hooksFor' = installHooks(c)
               /\ IF IsMemoryStore(c) \/ r.err
                  THEN /\ loopPc' = "fatal"
                       /\ UNCHANGED <<apiCfg, applied, reloadPre>>
                  ELSE /\ loopPc' = "serve"
                       /\ apiCfg' = ApiOf(c.gen)
                       /\ applied' = c.gen
                       /\ reloadPre' = ApiOf(c.gen)
    /\ UNCHANGED <<sigintReset, listener, cfgLock, shouldExit, newCfg, scStep, reloadOutcome,
                   hnd, hcalls, stTokens, tokDisk, tokIssued>>
    /\ UNCHANGED lateListeners
    /\ UNCHANGED nonServeVars

\* api.Serve(): the server is created and the listener goroutine spawned.
\* The goroutine of the previous server may not have run yet.
LoopServe ==
    /\ loopPc = "serve"
    /\ loopPc' = "select"
    /\ listener' = "spawned"
    /\ lateListeners' = IF listener = "spawned" THEN lateListeners + 1 ELSE lateListeners
    /\ newCfg' = NoCfg
    /\ shouldExit' = FALSE
    /\ reloadOutcome' = "none"
    /\ UNCHANGED <<sigintReset, cfgLock, cfgCount, apiCfg, applied, scStep, reloadPre, hnd, hcalls>>
    /\ UNCHANGED <<serveCfg, hooksFor, stTokens, tokDisk, tokIssued>>
    /\ UNCHANGED nonServeVars

\* The goroutine of api.Serve: RLock, then ListenAndServe, which returns
\* ErrServerClosed at once when the server has been shut down already.
ListenerStart ==
    /\ ProcessAlive
    /\ listener = "spawned"
    /\ ~cfgLock.writer
    /\ IF ServerClosed
       THEN listener' = "closed" /\ UNCHANGED cfgLock
       ELSE listener' = "listening" /\ cfgLock' = [cfgLock EXCEPT !.reader = TRUE]
    /\ UNCHANGED <<sigintReset, loopPc, shouldExit, newCfg, cfgCount, apiCfg, applied, scStep,
                   reloadOutcome, reloadPre, hnd, hcalls>>
    /\ UNCHANGED <<serveCfg, hooksFor, stTokens, tokDisk, tokIssued>>
    /\ UNCHANGED lateListeners
    /\ UNCHANGED nonServeVars

\* The goroutine of a server that was shut down before the goroutine ran:
\* RLock, ListenAndServe returns ErrServerClosed, deferred RUnlock.
ListenerLate ==
    /\ ProcessAlive
    /\ lateListeners > 0
    /\ ~cfgLock.writer
    /\ lateListeners' = lateListeners - 1
    /\ UNCHANGED <<sigintReset, loopPc, listener, cfgLock, shouldExit, newCfg, cfgCount, apiCfg,
                   applied, scStep, reloadOutcome, reloadPre, hnd, hcalls>>
    /\ UNCHANGED <<serveCfg, hooksFor, stTokens, tokDisk, tokIssued>>
    /\ UNCHANGED nonServeVars

\* ListenAndServe returns another error than ErrServerClosed: log.Fatal.
ListenerFail ==
    /\ ProcessAlive
    /\ listener = "spawned"
    /\ ~cfgLock.writer
    /\ ~ServerClosed
    /\ listener' = "closed"
    /\ loopPc' = "fatal"
    /\ UNCHANGED <<sigintReset, cfgLock, shouldExit, newCfg, cfgCount, apiCfg, applied, scStep,
                   reloadOutcome, reloadPre, hnd, hcalls>>
    /\ UNCHANGED <<serveCfg, hooksFor, stTokens, tokDisk, tokIssued>>
    /\ UNCHANGED lateListeners
    /\ UNCHANGED nonServeVars

\* A goroutine that returns without the deferred RUnlock.
RUnlockNever(lock) == lock

\* api.configLock.RUnlock()
RUnlock(lock) == [lock EXCEPT !.reader = FALSE]

\* ListenAndServe returns ErrServerClosed after Shutdown: deferred RUnlock.
ListenerExit ==
    /\ ProcessAlive
    /\ listener = "listening"
    /\ ServerClosed
    /\ listener' = "closed"
    /\ cfgLock' = RUnlock(cfgLock)
    /\ UNCHANGED <<sigintReset, loopPc, shouldExit, newCfg, cfgCount, apiCfg, applied, scStep,
                   reloadOutcome, reloadPre, hnd, hcalls>>
    /\ UNCHANGED <<serveCfg, hooksFor, stTokens, tokDisk, tokIssued>>
    /\ UNCHANGED lateListeners
    /\ UNCHANGED nonServeVars

\* case newCfg = <-configWatcher.NewConfig: the file changed and the watcher
\* loaded and validated it.
WatcherNewConfig(fail) ==
    /\ loopPc = "select"
    /\ cfgCount < MaxConfigs
    /\ cfgCount' = cfgCount + 1
    /\ newCfg' = [gen |-> cfgCount + 1, fail |-> fail]
    /\ reloadPre' = apiCfg
    /\ loopPc' = "shutdown"
    /\ UNCHANGED <<sigintReset, listener, cfgLock, shouldExit, apiCfg, applied, scStep,
                   reloadOutcome, hnd, hcalls>>
    /\ UNCHANGED <<serveCfg, hooksFor, stTokens, tokDisk, tokIssued>>
    /\ UNCHANGED lateListeners
    /\ UNCHANGED nonServeVars

\* case err := <-configWatcher.Errors: log.Fatal.  The watcher reports that
\* the configuration file was removed.
WatcherError ==
    /\ loopPc = "select"
    /\ loopPc' = "fatal"
    /\ UNCHANGED <<sigintReset, listener, cfgLock, shouldExit, newCfg, cfgCount, apiCfg, applied,
                   scStep, reloadOutcome, reloadPre, hnd, hcalls>>
    /\ UNCHANGED <<serveCfg, hooksFor, stTokens, tokDisk, tokIssued>>
    /\ UNCHANGED lateListeners
    /\ UNCHANGED nonServeVars

\* configWatcher.ForceReload(): the configuration loaded from the file now,
\* or an error when it cannot be loaded or validated.
ForceReload(loads, fail) ==
    IF loads THEN [err |-> FALSE, cfg |-> [gen |-> cfgCount + 1, fail |-> fail]]
    ELSE [err |-> TRUE, cfg |-> NoCfg]

\* case <-hup: ForceReload; its error is fatal.
Hup(loads, fail) ==
    /\ loopPc = "select"
    /\ cfgCount < MaxConfigs
    /\ LET r == ForceReload(loads, fail) IN
         /\ reloadPre' = apiCfg
         /\ IF r.err
            THEN /\ loopPc' = "fatal"
                 /\ reloadOutcome' = "load"
                 /\ UNCHANGED <<sigintReset, newCfg, cfgCount>>
            ELSE /\ loopPc' = "shutdown"
                 /\ newCfg' = r.cfg
                 /\ cfgCount' = cfgCount + 1
                 /\ UNCHANGED reloadOutcome
    /\ UNCHANGED <<sigintReset, listener, cfgLock, shouldExit, apiCfg, applied, scStep, hnd, hcalls>>
    /\ UNCHANGED <<serveCfg, hooksFor, stTokens, tokDisk, tokIssued>>
    /\ UNCHANGED lateListeners
    /\ UNCHANGED nonServeVars

\* case <-interrupt: shouldExit, and signal.Reset(os.Interrupt).
Interrupt ==
    /\ loopPc = "select"
    /\ shouldExit' = TRUE
    /\ sigintReset' = TRUE
    /\ loopPc' = "shutdown"
    /\ UNCHANGED <<listener, cfgLock, newCfg, cfgCount, apiCfg, applied, scStep,
                   reloadOutcome, reloadPre, hnd, hcalls>>
    /\ UNCHANGED <<serveCfg, hooksFor, stTokens, tokDisk, tokIssued>>
    /\ UNCHANGED lateListeners
    /\ UNCHANGED nonServeVars

\* A second SIGINT, after the Reset: the process is killed where it is.
SecondInterrupt ==
    /\ sigintReset
    /\ ProcessAlive
    /\ loopPc' = "killed"
    /\ UNCHANGED <<sigintReset, listener, cfgLock, shouldExit, newCfg, cfgCount, apiCfg,
                   applied, scStep, reloadOutcome, reloadPre, hnd, hcalls>>
    /\ UNCHANGED <<serveCfg, hooksFor, stTokens, tokDisk, tokIssued>>
    /\ UNCHANGED lateListeners
    /\ UNCHANGED nonServeVars

\* case <-terminate:
Terminate ==
    /\ loopPc = "select"
    /\ shouldExit' = TRUE
    /\ loopPc' = "shutdown"
    /\ UNCHANGED <<sigintReset, listener, cfgLock, newCfg, cfgCount, apiCfg, applied, scStep,
                   reloadOutcome, reloadPre, hnd, hcalls>>
    /\ UNCHANGED <<serveCfg, hooksFor, stTokens, tokDisk, tokIssued>>
    /\ UNCHANGED lateListeners
    /\ UNCHANGED nonServeVars

\* api.Shutdown: server.Shutdown(ctx) closes the listeners, so that no new
\* request is accepted, and waits for the connections to become idle.
ShutdownBegin ==
    /\ loopPc = "shutdown"
    /\ loopPc' = "draining"
    /\ UNCHANGED <<sigintReset, listener, cfgLock, shouldExit, newCfg, cfgCount, apiCfg, applied,
                   scStep, reloadOutcome, reloadPre, hnd, hcalls>>
    /\ UNCHANGED <<serveCfg, hooksFor, stTokens, tokDisk, tokIssued>>
    /\ UNCHANGED lateListeners
    /\ UNCHANGED nonServeVars

\* server.Shutdown returns nil: every request has completed.
ShutdownGraceful ==
    /\ loopPc = "draining"
    /\ \A h \in Handlers : ~Running(h)
    /\ loopPc' = "lock"
    /\ UNCHANGED <<sigintReset, listener, cfgLock, shouldExit, newCfg, cfgCount, apiCfg, applied,
                   scStep, reloadOutcome, reloadPre, hnd, hcalls>>
    /\ UNCHANGED <<serveCfg, hooksFor, stTokens, tokDisk, tokIssued>>
    /\ UNCHANGED lateListeners
    /\ UNCHANGED nonServeVars

\* server.Shutdown returns ctx.Err() after 5 seconds (the error is dropped):
\* the requests still in progress go on running.
ShutdownTimeout ==
    /\ loopPc = "draining"
    /\ \E h \in Handlers : Running(h)
    /\ loopPc' = "lock"
    /\ UNCHANGED <<sigintReset, listener, cfgLock, shouldExit, newCfg, cfgCount, apiCfg, applied,
                   scStep, reloadOutcome, reloadPre, hnd, hcalls>>
    /\ UNCHANGED <<serveCfg, hooksFor, stTokens, tokDisk, tokIssued>>
    /\ UNCHANGED lateListeners
    /\ UNCHANGED nonServeVars

\* api.Shutdown: api.configLock.Lock()
ShutdownLock ==
    /\ loopPc = "lock"
    /\ cfgLock = FreeLock
    /\ cfgLock' = [cfgLock EXCEPT !.writer = TRUE]
    /\ loopPc' = "save"
    /\ UNCHANGED <<sigintReset, listener, shouldExit, newCfg, cfgCount, apiCfg, applied, scStep,
                   reloadOutcome, reloadPre, hnd, hcalls>>
    /\ UNCHANGED <<serveCfg, hooksFor, stTokens, tokDisk, tokIssued>>
    /\ UNCHANGED lateListeners
    /\ UNCHANGED nonServeVars

\* api.Shutdown: return api.tokenStore.Save() and the deferred Unlock.  The
\* serve loop has the result of Shutdown in err: nil ("returned") or the
\* error of Save ("saveerr"); `left` is the file afterwards.
ShutdownSave(saved, left) ==
    /\ loopPc = "save"
    /\ left \in (IF saved THEN {FileStoreSave(stTokens[apiCfg.tokenStore])}
                ELSE FileStoreSaveFails(tokDisk, stTokens[apiCfg.tokenStore]))
    /\ cfgLock' = FreeLock
    /\ loopPc' = IF saved THEN "returned" ELSE "saveerr"
    /\ tokDisk' = left
    /\ UNCHANGED <<sigintReset, listener, shouldExit, newCfg, cfgCount, apiCfg, applied, scStep,
                   reloadOutcome, reloadPre, hnd, hcalls>>
    /\ UNCHANGED <<serveCfg, hooksFor, stTokens, tokIssued>>
    /\ UNCHANGED lateListeners
    /\ UNCHANGED nonServeVars

\* The files a Save of the store in use can end with.
SaveLeaves ==
    {FileStoreSave(stTokens[apiCfg.tokenStore])}
        \cup FileStoreSaveFails(tokDisk, stTokens[apiCfg.tokenStore])

\* The serve loop after api.Shutdown has returned, up to SetConfig: an error
\* is fatal, shouldExit leaves the loop and Serve returns, and a
\* configuration with the ":memory:" token store is refused.  The handlers
\* that server.Shutdown did not wait for run until the process ends here.
LoopAfterShutdown ==
    /\ loopPc \in {"returned", "saveerr"}
    /\ IF loopPc = "saveerr" THEN loopPc' = "fatal" /\ UNCHANGED reloadOutcome
       ELSE IF shouldExit THEN loopPc' = "exited" /\ UNCHANGED reloadOutcome
       ELSE IF IsMemoryStore(newCfg) THEN loopPc' = "serve" /\ reloadOutcome' = "memory"
       ELSE loopPc' = "setconfig" /\ UNCHANGED reloadOutcome
    /\ UNCHANGED <<sigintReset, listener, cfgLock, shouldExit, newCfg, cfgCount, apiCfg, applied,
                   scStep, reloadPre, hnd, hcalls>>
    /\ UNCHANGED <<serveCfg, hooksFor, stTokens, tokDisk, tokIssued>>
    /\ UNCHANGED lateListeners
    /\ UNCHANGED nonServeVars

\* api.SetConfig: api.configLock.Lock()
SetConfigLock ==
    /\ loopPc = "setconfig"
    /\ cfgLock = FreeLock
    /\ cfgLock' = [cfgLock EXCEPT !.writer = TRUE]
    /\ loopPc' = "construct"
    /\ reloadPre' = apiCfg
    /\ UNCHANGED <<sigintReset, listener, shouldExit, newCfg, cfgCount, apiCfg, applied, scStep,
                   reloadOutcome, hnd, hcalls>>
    /\ UNCHANGED <<serveCfg, hooksFor, stTokens, tokDisk, tokIssued>>
    /\ UNCHANGED lateListeners
    /\ UNCHANGED nonServeVars

\* setConfigUnsafe up to its first assignment; on an error SetConfig returns
\* it (deferred Unlock) and the serve loop logs it.
SetConfigConstruct ==
    /\ loopPc = "construct"
    /\ LET r == setConfigUnsafe(apiCfg, newCfg) IN
         /\ apiCfg' = r.api
         /\ stTokens' = IF NewStoreFails(newCfg) THEN stTokens
                        ELSE [stTokens EXCEPT ![newCfg.gen] = NewStoreTokens(tokDisk)]
         /\ IF r.err
            THEN /\ loopPc' = "serve"
                 /\ reloadOutcome' = "setconfig"
                 /\ cfgLock' = FreeLock
                 /\ UNCHANGED scStep
            ELSE /\ loopPc' = "assign"
                 /\ scStep' = 1
                 /\ UNCHANGED <<sigintReset, reloadOutcome, cfgLock>>
    /\ UNCHANGED <<sigintReset, listener, shouldExit, newCfg, cfgCount, applied, reloadPre, hnd, hcalls>>
    /\ UNCHANGED <<serveCfg, hooksFor, tokDisk, tokIssued>>
    /\ UNCHANGED lateListeners
    /\ UNCHANGED nonServeVars

\* One assignment of setConfigUnsafe; after the last one SetConfig returns
\* nil (deferred Unlock).
SetConfigAssign ==
    /\ loopPc = "assign"
    /\ apiCfg' = AssignField(apiCfg, AssignOrder[scStep], newCfg)
    /\ IF scStep < Len(AssignOrder)
       THEN /\ scStep' = scStep + 1
            /\ UNCHANGED <<sigintReset, loopPc, cfgLock, applied, reloadOutcome>>
       ELSE /\ scStep' = 0
            /\ loopPc' = "install"
            /\ cfgLock' = FreeLock
            /\ applied' = newCfg.gen
            /\ reloadOutcome' = "ok"
    /\ UNCHANGED <<sigintReset, listener, shouldExit, newCfg, cfgCount, reloadPre, hnd, hcalls>>
    /\ UNCHANGED <<serveCfg, hooksFor, stTokens, tokDisk, tokIssued>>
    /\ UNCHANGED lateListeners
    /\ UNCHANGED nonServeVars

\* The serve loop after SetConfig returned nil: installHooks(cfg, configPath,
\* false), with the lock free.
LoopInstallHooks ==
    /\ loopPc = "install"
    /\ loopPc' = "serve"
    /\ hooksFor' = installHooks(serveCfg)
    /\ UNCHANGED <<sigintReset, listener, cfgLock, shouldExit, newCfg, cfgCount, apiCfg, applied,
                   scStep, reloadOutcome, reloadPre, hnd, hcalls>>
    /\ UNCHANGED <<serveCfg, stTokens, tokDisk, tokIssued>>
    /\ UNCHANGED lateListeners
    /\ UNCHANGED nonServeVars

\* The server accepts a request and starts its handler.
HandlerStart(h, route) ==
    /\ ProcessAlive
    /\ listener = "listening"
    /\ ~ServerClosed
    /\ ~Running(h)
    /\ hcalls < MaxRequests
    /\ hcalls' = hcalls + 1
    /\ hnd' = [hnd EXCEPT ![h] = [pc |-> "run", route |-> route, k |-> 1, seen |-> {},
                                  start |-> applied]]
    /\ UNCHANGED <<sigintReset, loopPc, listener, cfgLock, shouldExit, newCfg, cfgCount, apiCfg,
                   applied, scStep, reloadOutcome, reloadPre>>
    /\ UNCHANGED <<serveCfg, hooksFor, stTokens, tokDisk, tokIssued>>
    /\ UNCHANGED lateListeners
    /\ UNCHANGED nonServeVars

\* The next step of a handler: it reads fields of the API object, without
\* any lock, and either answers (an error status, or the last step's
\* response) or goes on.  The last step of /session is getSession: unless it
\* answers with an error it issues a token from the store it read.
HandlerStep(h, answers) ==
    /\ ProcessAlive
    /\ Running(h)
    /\ LET reads == RouteReads[hnd[h].route]
           seen == hnd[h].seen \cup { apiCfg[f] : f \in reads[hnd[h].k] }
           issues == hnd[h].route = "session" /\ hnd[h].k = Len(reads) /\ ~answers
       IN /\ hnd' = [hnd EXCEPT ![h] =
                    IF answers \/ hnd[h].k = Len(reads)
                    THEN [@ EXCEPT !.pc = "done", !.seen = seen]
                    ELSE [@ EXCEPT !.k = @ + 1, !.seen = seen]]
          /\ stTokens' = IF issues
                         THEN [stTokens EXCEPT ![apiCfg.tokenStore] = @ \cup {NewToken(hcalls)}]
                         ELSE stTokens
          /\ tokIssued' = IF issues THEN tokIssued \cup {NewToken(hcalls)} ELSE tokIssued
    /\ UNCHANGED <<sigintReset, loopPc, listener, cfgLock, shouldExit, newCfg, cfgCount, apiCfg,
                   applied, scStep, reloadOutcome, reloadPre, hcalls>>
    /\ UNCHANGED <<serveCfg, hooksFor, tokDisk>>
    /\ UNCHANGED lateListeners
    /\ UNCHANGED nonServeVars

ServeNext ==
    \/ \E loads \in BOOLEAN, fail \in CfgFailures : ServeStart(loads, fail)
    \/ LoopServe
    \/ ListenerStart
    \/ ListenerLate
    \/ ListenerFail
    \/ ListenerExit
    \/ \E fail \in CfgFailures : WatcherNewConfig(fail)
    \/ WatcherError
    \/ \E loads \in BOOLEAN, fail \in CfgFailures : Hup(loads, fail)
    \/ Interrupt
    \/ SecondInterrupt
    \/ Terminate
    \/ ShutdownBegin
    \/ ShutdownGraceful
    \/ ShutdownTimeout
    \/ ShutdownLock
    \/ \E saved \in BOOLEAN, left \in SaveLeaves : ShutdownSave(saved, left)
    \/ LoopAfterShutdown
    \/ SetConfigLock
    \/ SetConfigConstruct
    \/ SetConfigAssign
    \/ LoopInstallHooks
    \/ \E h \in Handlers, route \in Routes : HandlerStart(h, route)
    \/ \E h \in Handlers, answers \in BOOLEAN : HandlerStep(h, answers)

(***************************************************************************)
(* The webhook store file on disk, WebhookStore.Save step by step, and the *)
(* trigger-webhooks command (commands/webhook.go, repositories/invoke.go). *)
(***************************************************************************)
\* The chunks of the JSON text of a store file: the opening bracket, one
\* chunk per hook, the closing bracket.
JsonOpen == [tok |-> "["]
JsonClose == [tok |-> "]"]
JsonEntry(hook) == [tok |-> "hook", hook |-> hook]

\* json.MarshalIndent(rawStore): the text of a list of hooks.
MarshalStore(list) ==
    <<JsonOpen>> \o [i \in 1..Len(list) |-> JsonEntry(list[i])] \o <<JsonClose>>

\* json.Unmarshal(content, &rawStore): a text that is not a whole array
\* (an empty file, a prefix of an array) is an error.
UnmarshalStore(text) ==
    IF /\ Len(text) >= 2
       /\ text[1] = JsonOpen
       /\ text[Len(text)] = JsonClose
       /\ \A i \in 2..(Len(text) - 1) : text[i].tok = "hook"
    THEN [ok |-> TRUE, raw |-> [i \in 1..(Len(text) - 2) |-> text[i + 1].hook]]
    ELSE [ok |-> FALSE, raw |-> <<>>]

\* The files of the model: the file the path names at the start and one
\* temporary file per Save.
Inodes == 1..(MaxSaves + 1)

\* A Save that writes the file at the path in place when there is one.
SaveOpenInPlace(path, fresh) == IF path # 0 THEN path ELSE fresh

\* ioutil.TempFile("", "tmp-store"): the file Save writes is a new file.
SaveOpen(path, fresh) == fresh

\* The stores the server saves while trigger-webhooks runs.
SavedLists == { <<>>, <<BaseHook("h2")>>, <<BaseHook("h1"), BaseHook("h2")>> }

\* WebhookStore.Save(path): ioutil.TempFile. On success the file is empty
\* and Write begins.
SaveBegin(list, created) ==
    /\ svPc = "idle"
    /\ svDone < MaxSaves
    /\ svDone' = svDone + 1
    /\ IF created
       THEN LET inode == SaveOpen(fsPath, svDone + 2) IN
            /\ svTmp' = inode
            /\ fsText' = [fsText EXCEPT ![inode] = <<>>]
            /\ svText' = MarshalStore(list)
            /\ svPc' = "write"
       ELSE UNCHANGED <<svTmp, fsText, svText, svPc>>
    /\ UNCHANGED <<fsPath, fsVersions, trPc, trFd, trContent, trReadAt, trStore, trEvent, trRepo,
                   trTodo, trPosts, trOut, trBody, trSent, trExit>>
    /\ UNCHANGED nonTrigVars

\* WebhookStore.Write: w.Write(content) puts the text into the file chunk
\* after chunk; tmpfile.Close() follows the last one.
SaveWrite ==
    /\ svPc = "write"
    /\ LET n == Len(fsText[svTmp]) IN
       /\ fsText' = [fsText EXCEPT ![svTmp] = Append(@, svText[n + 1])]
       /\ svPc' = IF n + 1 = Len(svText) THEN "rename" ELSE "write"
    /\ UNCHANGED <<fsPath, fsVersions, svTmp, svText, svDone, trPc, trFd, trContent, trReadAt,
                   trStore, trEvent, trRepo, trTodo, trPosts, trOut, trBody, trSent, trExit>>
    /\ UNCHANGED nonTrigVars

\* w.Write fails part of the way: Save closes the file and returns the error.
SaveWriteFail ==
    /\ svPc = "write"
    /\ svPc' = "idle"
    /\ UNCHANGED <<fsPath, fsText, fsVersions, svTmp, svText, svDone, trPc, trFd, trContent,
                   trReadAt, trStore, trEvent, trRepo, trTodo, trPosts, trOut, trBody, trSent, trExit>>
    /\ UNCHANGED nonTrigVars

\* os.Rename(tmpfile.Name(), path): the path names the written file, or the
\* rename fails and the path names what it named before.
SaveRename(renamed) ==
    /\ svPc = "rename"
    /\ svPc' = "idle"
    /\ fsPath' = IF renamed THEN svTmp ELSE fsPath
    /\ fsVersions' = IF renamed THEN fsVersions \cup {svText} ELSE fsVersions
    /\ UNCHANGED <<fsText, svTmp, svText, svDone, trPc, trFd, trContent, trReadAt, trStore,
                   trEvent, trRepo, trTodo, trPosts, trOut, trBody, trSent, trExit>>
    /\ UNCHANGED nonTrigVars

\* TriggerWebhooks ends in log.Fatal before it dispatches: exit status 1.
TrigFatal ==
    /\ trPc' = "aborted"
    /\ trExit' = 1

\* TriggerWebhooks up to os.Open: the repository must be in the
\* configuration and the event must be valid; the store file is opened.
TrigOpen ==
    /\ trPc = "start"
    /\ IF trRepo \notin ConfigRepos \/ ~IsValidEvent(trEvent) \/ fsPath = 0
       THEN TrigFatal /\ UNCHANGED trFd
       ELSE trFd' = fsPath /\ trPc' = "opened" /\ UNCHANGED trExit
    /\ UNCHANGED <<fsPath, fsText, fsVersions, svPc, svTmp, svText, svDone, trContent, trReadAt,
                   trStore, trEvent, trRepo, trTodo, trPosts, trOut, trBody, trSent>>
    /\ UNCHANGED nonTrigVars

\* hooks.LoadStore(f, validRepos): ioutil.ReadAll(r) reads the opened file.
TrigRead ==
    /\ trPc = "opened"
    /\ trContent' = fsText[trFd]
    /\ trReadAt' = svPc
    /\ trPc' = "read"
    /\ UNCHANGED <<fsPath, fsText, fsVersions, svPc, svTmp, svText, svDone, trFd, trStore,
                   trEvent, trRepo, trTodo, trPosts, trOut, trBody, trSent, trExit>>
    /\ UNCHANGED nonTrigVars

\* hooks.LoadStore(f, validRepos) after the read: json.Unmarshal and the
\* validation of every entry; then repository.ParseEventPayload.
TrigLoad(parsed) ==
    /\ trPc = "read"
    /\ LET u == UnmarshalStore(trContent) IN
       IF ~u.ok
       THEN TrigFatal /\ UNCHANGED <<trStore, trTodo>>
       ELSE /\ trStore' = ReadStore(u.raw, ConfigRepos)
            /\ IF parsed
               THEN /\ trTodo' = StoreKeys(ReadStore(u.raw, ConfigRepos))
                    /\ trPc' = "dispatch"
                    /\ UNCHANGED trExit
               ELSE TrigFatal /\ UNCHANGED trTodo
    /\ UNCHANGED <<fsPath, fsText, fsVersions, svPc, svTmp, svText, svDone, trFd, trContent,
                   trReadAt, trEvent, trRepo, trPosts, trOut, trBody, trSent>>
    /\ UNCHANGED nonTrigVars

\* hmac.New(sha1.New, key), Write(message) and Sum(nil): the digest, kept as
\* the term that names its key and its message.
HmacSha1(key, message) == [mac |-> "hmac-sha1", key |-> key, message |-> message]

\* hex.EncodeToString: two lowercase hexadecimal digits per byte.
HexEncodeToString(digest) == [hex |-> "0123456789abcdef", bytes |-> digest]

\* A signature made with the id of the hook for a key.
SignPayloadById(hook, payload) == HexEncodeToString(HmacSha1(hook.id, payload))

\* Webhook.SignPayload
SignPayload(hook, payload) == HexEncodeToString(HmacSha1(hook.secret, payload))

\* The request invokeHook builds and hands to client.Do.
invokeHookRequest(event, hook, rawPayload) ==
    [sent |-> TRUE, url |-> hook.url, body |-> rawPayload,
     signature |-> SignPayload(hook, rawPayload), event |-> event,
     contentType |-> "application/json"]

NoPost ==
    [sent |-> FALSE, url |-> "", body |-> "",
     signature |-> HexEncodeToString(HmacSha1("", "")), event |-> "", contentType |-> ""]

\* http.NewRequest("POST", hook.Url, body): an error when the URL of the hook
\* does not parse.
NewRequestFails(hook) == UrlParseOnce(hook.url).err # ""

\* The outcomes of invokeHook: a 2xx response, another response (logged,
\* nil returned), or an error (returned): of client.Do, or of NewRequest,
\* in which case no request is made.
PostOutcomes == {"ok", "non2xx", "error"}

\* One iteration of the loop of ForEach, in the order the map gives: f is
\* called when the hook matches, and InvokeAllHooks's f sends the POST.
TrigVisit(k, outcome) ==
    /\ trPc = "dispatch"
    /\ k \in trTodo
    /\ trTodo' = trTodo \ {k}
    /\ IF ~ForEachMatches(trStore[k], trEvent, trRepo)
       THEN /\ outcome = "ok"
            /\ UNCHANGED <<trPosts, trOut, trSent>>
       ELSE IF NewRequestFails(trStore[k])
       THEN /\ outcome = "error"
            /\ trOut' = [trOut EXCEPT ![k] = outcome]
            /\ UNCHANGED <<trPosts, trSent>>
       ELSE /\ trPosts' = [trPosts EXCEPT ![k] = @ + 1]
            /\ trOut' = [trOut EXCEPT ![k] = outcome]
            /\ trSent' = [trSent EXCEPT ![k] = invokeHookRequest(trEvent, trStore[k], trBody)]
    /\ UNCHANGED <<fsPath, fsText, fsVersions, svPc, svTmp, svText, svDone, trPc, trFd, trContent,
                   trReadAt, trStore, trEvent, trRepo, trExit, trBody>>
    /\ UNCHANGED nonTrigVars

\* ForEach returns the errors; InvokeAllHooks returns an error when there
\* are any, and TriggerWebhooks ends in log.Fatal then.
TrigFinish ==
    /\ trPc = "dispatch"
    /\ trTodo = {}
    /\ trPc' = "exited"
    /\ trExit' = IF \E k \in HookIds : trOut[k] = "error" THEN 1 ELSE 0
    /\ UNCHANGED <<fsPath, fsText, fsVersions, svPc, svTmp, svText, svDone, trFd, trContent,
                   trReadAt, trStore, trEvent, trRepo, trTodo, trPosts, trOut, trBody, trSent>>
    /\ UNCHANGED nonTrigVars

\* Entries of a store file: valid ones, and ones with unsorted, unknown or
\* no usable events and repositories.
SecretB == "bbbbbbbbbbbbbbbbbbbb"

\* events.MarshalPayload of the payloads of two pushes.
RawPayloads ==
    { "{\"repository\":\"repo\",\"commits\":[]}",
      "{\"repository\":\"repo\",\"commits\":[{\"id\":\"c1\"}]}" }

RawHooks ==
    { BaseHook("h1"),
      [BaseHook("h1") EXCEPT !.repos = <<"repo", "other">>],
      [BaseHook("h1") EXCEPT !.repos = <<"ghost">>],
      [BaseHook("h2") EXCEPT !.secret = SecretB, !.events = <<"pull", "push">>, !.repos = <<"ghost", "other">>],
      [BaseHook("h2") EXCEPT !.events = <<"pull">>],
      [BaseHook("h2") EXCEPT !.enabled = FALSE, !.repos = <<"other", "repo">>] }

\* The lists of at most MaxEntries entries.
RawLists == UNION { [1..n -> RawHooks] : n \in 0..MaxEntries }

\* The state before trigger-webhooks starts, for a store file (<<>> for no
\* file) and the arguments of the command.
TrigInitWith(texts, evs, repos) ==
    /\ \E text \in texts :
         /\ fsPath = IF text = <<>> THEN 0 ELSE 1
         /\ fsText = [i \in Inodes |-> IF i = 1 THEN text ELSE <<>>]
         /\ fsVersions = IF text = <<>> THEN {} ELSE {text}
    /\ svPc = "idle" /\ svTmp = 0 /\ svText = <<>> /\ svDone = 0
    /\ trPc = "start" /\ trFd = 0 /\ trContent = <<>> /\ trReadAt = "idle"
    /\ trStore = EmptyStore
    /\ trEvent \in evs
    /\ trRepo \in repos
    /\ trTodo = {}
    /\ trPosts = [k \in HookIds |-> 0]
    /\ trOut = [k \in HookIds |-> "none"]
    /\ trBody \in RawPayloads
    /\ trSent = [k \in HookIds |-> NoPost]
    /\ trExit = -1

\* No store file is in use and trigger-webhooks does not run.
TrigIdle ==
    /\ fsPath = 0 /\ fsText = [i \in Inodes |-> <<>>] /\ fsVersions = {}
    /\ svPc = "idle" /\ svTmp = 0 /\ svText = <<>> /\ svDone = 0
    /\ trPc = "off" /\ trFd = 0 /\ trContent = <<>> /\ trReadAt = "idle"
    /\ trStore = EmptyStore /\ trEvent = "push" /\ trRepo = "repo" /\ trTodo = {}
    /\ trPosts = [k \in HookIds |-> 0] /\ trOut = [k \in HookIds |-> "none"]
    /\ trBody = "" /\ trSent = [k \in HookIds |-> NoPost]
    /\ trExit = -1

\* trigger-webhooks alone on a store file.
TrigInit ==
    TrigInitWith({<<>>} \cup { MarshalStore(list) : list \in RawLists },
                 {"push", "pull"}, {"repo", "other", "ghost"})

TrigNext ==
    \/ TrigOpen
    \/ TrigRead
    \/ \E parsed \in BOOLEAN : TrigLoad(parsed)
    \/ \E k \in HookIds, outcome \in PostOutcomes : TrigVisit(k, outcome)
    \/ TrigFinish

\* trigger-webhooks next to a server that saves its store.
SaveReadInit ==
    TrigInitWith({<<>>, MarshalStore(<<BaseHook("h1")>>)}, {"push"}, {"repo"})

SaveReadNext ==
    \/ \E list \in SavedLists, created \in BOOLEAN : SaveBegin(list, created)
    \/ SaveWrite
    \/ SaveWriteFail
    \/ \E renamed \in BOOLEAN : SaveRename(renamed)
    \/ TrigNext

(***************************************************************************)
(* The webhook handlers as concurrent goroutines of one API object, each   *)
(* under api.hookStoreLock (api/routes.go).                                *)
(***************************************************************************)
Clients == 1..NumClients

\* The requests the clients send.
ConcRequests ==
    { [op |-> "create", id |-> "h1", hook |-> BaseHook("h1"), patch |-> NoPatch],
      [op |-> "create", id |-> "h2", hook |-> [BaseHook("h2") EXCEPT !.secret = Secret19],
       patch |-> NoPatch],
      [op |-> "delete", id |-> "h1", hook |-> NilHook, patch |-> NoPatch],
      [op |-> "delete", id |-> "h2", hook |-> NilHook, patch |-> NoPatch],
      [op |-> "update", id |-> "h1", hook |-> NilHook,
       patch |-> [NoPatch EXCEPT !.enabled = Some(FALSE)]],
      [op |-> "update", id |-> "h1", hook |-> NilHook,
       patch |-> [NoPatch EXCEPT !.id = Some("h9")]],
      [op |-> "get", id |-> "h1", hook |-> NilHook, patch |-> NoPatch],
      [op |-> "list", id |-> "", hook |-> NilHook, patch |-> NoPatch] }

NoRequest == [op |-> "none", id |-> "", hook |-> NilHook, patch |-> NoPatch]

\* A response: the status and the hooks in the body.
Response(status, hooks) == [status |-> status, hooks |-> hooks]

NoResponse == Response(0, {})

\* The locals of a handler: the hook found under the id, the status already
\* written, and how Save ended.
NoLocals == [hook |-> NilHook, first |-> 0, out |-> "none"]

\* Handlers that take the read lock whatever they do.
LockModeShared(op) == "read"

\* api.hookStoreLock.Lock() in createHook, deleteHook and updateHook,
\* api.hookStoreLock.RLock() in getHook and getHooks.
LockMode(op) == IF op \in {"get", "list"} THEN "read" ELSE "write"

\* What one handler does when it runs alone on a store and a file, with the
\* outcome `out` of its Save: the response, the store and the file after it.
\* The body of a response is the set of hooks it lists: the hook of getHook,
\* the hooks of getHooks, the updated hook of a saved updateHook, none else.
SeqResult(store, file, req, out) ==
    LET same(status, hooks) == [res |-> Response(status, hooks), store |-> store, file |-> file]
        saved(okStatus, stored, reverted, first, body) ==
            CASE out = "ok" ->
                   [res |-> Response(IF first # 0 THEN first ELSE okStatus, body),
                    store |-> stored, file |-> HookSaved(stored)]
              [] out = "err" ->
                   [res |-> Response(IF first # 0 THEN first ELSE 500, {}),
                    store |-> reverted, file |-> file]
              [] OTHER ->
                   [res |-> Response(IF first # 0 THEN first ELSE Aborted, {}),
                    store |-> stored, file |-> file]
    IN CASE req.op = "create" ->
              IF HookLookup(store, req.id) # NilHook THEN same(400, {})
              ELSE IF WebhookValidate(req.hook, ConfigRepos) # "" THEN same(400, {})
              ELSE saved(201, HookPut(store, req.id, req.hook), HookDelete(store, req.id), 0, {})
         [] req.op = "delete" ->
              saved(204, HookDelete(store, req.id),
                    DeleteRevert(HookDelete(store, req.id), req.id, HookLookup(store, req.id)),
                    IF HookLookup(store, req.id) = NilHook THEN 404 ELSE 0, {})
         [] req.op = "update" ->
              IF req.id \notin StoreKeys(store) THEN same(404, {})
              ELSE IF store[req.id] = NilHook THEN same(Aborted, {})
              ELSE IF req.patch.id # Absent THEN same(400, {})
              ELSE IF WebhookValidate(ApplyPatch(store[req.id], req.patch), ConfigRepos) # ""
              THEN same(400, {})
              ELSE saved(200, HookPut(store, req.id, ApplyPatch(store[req.id], req.patch)),
                         store, 0, {ApplyPatch(store[req.id], req.patch)})
         [] req.op = "get" ->
              IF HookLookup(store, req.id) = NilHook THEN same(404, {})
              ELSE same(200, {store[req.id]})
         [] OTHER -> same(200, { store[k] : k \in StoreKeys(store) })

\* A request arrives and its handler goroutine starts.
HcInvoke(p, req) ==
    /\ hcPc[p] = "idle"
    /\ hcPc' = [hcPc EXCEPT ![p] = "wait"]
    /\ hcReq' = [hcReq EXCEPT ![p] = req]
    /\ hcConc' = [hcConc EXCEPT ![p] = \E q \in Clients : hcPc[q] \in {"check", "apply", "save"}]
    /\ UNCHANGED <<hcStore, hcFile, hcLock, hcLocal, hcRes, hcRef, hcExp>>
    /\ UNCHANGED nonConcVars

\* api.hookStoreLock.Lock() or RLock() returns.
HcLock(p) ==
    /\ hcPc[p] = "wait"
    /\ IF LockMode(hcReq[p].op) = "write"
       THEN /\ hcLock.writer = 0 /\ hcLock.readers = {}
            /\ hcLock' = [hcLock EXCEPT !.writer = p]
       ELSE /\ hcLock.writer = 0
            /\ hcLock' = [hcLock EXCEPT !.readers = @ \cup {p}]
    /\ hcPc' = [hcPc EXCEPT ![p] = "check"]
    /\ UNCHANGED <<hcStore, hcFile, hcReq, hcLocal, hcRes, hcRef, hcExp, hcConc>>
    /\ UNCHANGED nonConcVars

\* The handler up to its change of the map: the lookups and the validation,
\* and the response when it returns here.
HcCheck(p) ==
    /\ hcPc[p] = "check"
    /\ LET req == hcReq[p]
           answer(status, hooks) ==
               /\ hcRes' = [hcRes EXCEPT ![p] = Response(status, hooks)]
               /\ hcPc' = [hcPc EXCEPT ![p] = "unlock"]
               /\ UNCHANGED hcLocal
           goOn(hook, first) ==
               /\ hcLocal' = [hcLocal EXCEPT ![p] = [hook |-> hook, first |-> first, out |-> "none"]]
               /\ hcPc' = [hcPc EXCEPT ![p] = "apply"]
               /\ UNCHANGED hcRes
       IN CASE req.op = "create" ->
                 IF HookLookup(hcStore, req.id) # NilHook THEN answer(400, {})
                 ELSE IF WebhookValidate(req.hook, ConfigRepos) # "" THEN answer(400, {})
                 ELSE goOn(req.hook, 0)
            [] req.op = "delete" ->
                 goOn(HookLookup(hcStore, req.id),
                      IF HookLookup(hcStore, req.id) = NilHook THEN 404 ELSE 0)
            [] req.op = "update" ->
                 IF req.id \notin StoreKeys(hcStore) THEN answer(404, {})
                 ELSE IF hcStore[req.id] = NilHook THEN answer(Aborted, {})
                 ELSE IF req.patch.id # Absent THEN answer(400, {})
                 ELSE IF WebhookValidate(ApplyPatch(hcStore[req.id], req.patch), ConfigRepos) # ""
                 THEN answer(400, {})
                 ELSE goOn(hcStore[req.id], 0)
            [] req.op = "get" ->
                 IF HookLookup(hcStore, req.id) = NilHook THEN answer(404, {})
                 ELSE answer(200, {hcStore[req.id]})
            [] OTHER -> answer(200, { hcStore[k] : k \in StoreKeys(hcStore) })
    /\ UNCHANGED <<hcStore, hcFile, hcLock, hcReq, hcRef, hcExp, hcConc>>
    /\ UNCHANGED nonConcVars

\* The handler changes the map: api.hookStore[id] = &hook, delete(...), or
\* api.hookStore[id] = &updatedHook.
HcApply(p) ==
    /\ hcPc[p] = "apply"
    /\ LET req == hcReq[p] IN
       hcStore' = CASE req.op = "create" -> HookPut(hcStore, req.id, req.hook)
                    [] req.op = "delete" -> HookDelete(hcStore, req.id)
                    [] OTHER -> HookPut(hcStore, req.id, ApplyPatch(hcLocal[p].hook, req.patch))
    /\ hcPc' = [hcPc EXCEPT ![p] = "save"]
    /\ UNCHANGED <<hcFile, hcLock, hcReq, hcLocal, hcRes, hcRef, hcExp, hcConc>>
    /\ UNCHANGED nonConcVars

\* api.hookStore.Save(path) and what the handler does with its result.
HcSave(p, out) ==
    /\ hcPc[p] = "save"
    /\ out \in HookSaveOutcomes(hcStore)
    /\ LET req == hcReq[p]
           first == hcLocal[p].first
           okStatus == CASE req.op = "create" -> 201 [] req.op = "delete" -> 204 [] OTHER -> 200
           \* updateHook writes json.MarshalIndent(updatedHook) after its 200;
           \* createHook and deleteHook write a status only.
           body == IF req.op = "update" THEN {ApplyPatch(hcLocal[p].hook, req.patch)} ELSE {}
       IN CASE out = "ok" ->
                 /\ hcFile' = HookSaved(hcStore)
                 /\ hcRes' = [hcRes EXCEPT ![p] = Response(IF first # 0 THEN first ELSE okStatus, body)]
                 /\ UNCHANGED hcStore
            [] out = "err" ->
                 /\ hcStore' = CASE req.op = "create" -> HookDelete(hcStore, req.id)
                                 [] req.op = "delete" -> DeleteRevert(hcStore, req.id, hcLocal[p].hook)
                                 [] OTHER -> HookPut(hcStore, req.id, hcLocal[p].hook)
                 /\ hcRes' = [hcRes EXCEPT ![p] = Response(IF first # 0 THEN first ELSE 500, {})]
                 /\ UNCHANGED hcFile
            [] OTHER ->
                 /\ hcRes' = [hcRes EXCEPT ![p] = Response(IF first # 0 THEN first ELSE Aborted, {})]
                 /\ UNCHANGED <<hcStore, hcFile>>
    /\ hcLocal' = [hcLocal EXCEPT ![p].out = out]
    /\ hcPc' = [hcPc EXCEPT ![p] = "unlock"]
    /\ UNCHANGED <<hcLock, hcReq, hcRef, hcExp, hcConc>>
    /\ UNCHANGED nonConcVars

\* The deferred Unlock() or RUnlock() runs and the response is complete. The
\* request takes its place in the sequential order here: hcRef and hcExp are
\* what the handlers give when run one after another in that order.
HcUnlock(p) ==
    /\ hcPc[p] = "unlock"
    /\ hcLock' = [writer |-> IF hcLock.writer = p THEN 0 ELSE hcLock.writer,
                  readers |-> hcLock.readers \ {p}]
    /\ hcPc' = [hcPc EXCEPT ![p] = "done"]
    /\ LET seq == SeqResult(hcRef.store, hcRef.file, hcReq[p], hcLocal[p].out) IN
       /\ hcRef' = [store |-> seq.store, file |-> seq.file]
       /\ hcExp' = [hcExp EXCEPT ![p] = seq.res]
    /\ UNCHANGED <<hcStore, hcFile, hcReq, hcLocal, hcRes, hcConc>>
    /\ UNCHANGED nonConcVars

\* No handler runs.
ConcIdleWith(store, file) ==
    /\ hcStore = store
    /\ hcFile = file
    /\ hcLock = [writer |-> 0, readers |-> {}]
    /\ hcPc = [p \in Clients |-> "idle"]
    /\ hcReq = [p \in Clients |-> NoRequest]
    /\ hcLocal = [p \in Clients |-> NoLocals]
    /\ hcRes = [p \in Clients |-> NoResponse]
    /\ hcRef = [store |-> store, file |-> file]
    /\ hcExp = [p \in Clients |-> NoResponse]
    /\ hcConc = [p \in Clients |-> FALSE]

ConcIdle == ConcIdleWith(EmptyStore, NoHookFile)

\* The API object serves with an empty store or with one hook.
ConcInit ==
    \/ ConcIdleWith(EmptyStore, NoHookFile)
    \/ ConcIdleWith(HookPut(EmptyStore, "h1", BaseHook("h1")),
                    HookSaved(HookPut(EmptyStore, "h1", BaseHook("h1"))))

ConcNext ==
    \/ \E p \in Clients, req \in ConcRequests : HcInvoke(p, req)
    \/ \E p \in Clients : HcLock(p)
    \/ \E p \in Clients : HcCheck(p)
    \/ \E p \in Clients : HcApply(p)
    \/ \E p \in Clients, out \in {"ok", "err", "panic"} : HcSave(p, out)
    \/ \E p \in Clients : HcUnlock(p)

(***************************************************************************)
(* The payload of a Git push (repositories/git.go, parsePushEvent).         *)
(* A commit is a number, 0 is the null revision, and gitParents gives each  *)
(* commit its parent hashes in the order the commit object lists them.      *)
(***************************************************************************)
Commits == 1..MaxCommits

nullRevision == 0

refsHeadsPrefix == "refs/heads/"

GitBranchNames == {"a", "b"}

\* strings.HasPrefix(refName, refsHeadsPrefix)
HasHeadsPrefix(refName) ==
    /\ Len(refName) >= Len(refsHeadsPrefix)
    /\ SubSeq(refName, 1, Len(refsHeadsPrefix)) = refsHeadsPrefix

\* strings.TrimPrefix(refName, refsHeadsPrefix)
TrimHeadsPrefix(refName) ==
    IF HasHeadsPrefix(refName)
    THEN SubSeq(refName, Len(refsHeadsPrefix) + 1, Len(refName))
    ELSE refName

\* The walk of object.NewCommitPreorderIter: `stack` holds the parent
\* iterators (the hashes each has not yielded yet), `seen` the iterator's own
\* set joined with the caller's, `out` the commits yielded so far.  A commit
\* that is in `seen` is skipped and its parents are not pushed.
RECURSIVE PreorderWalk(_, _, _, _)
PreorderWalk(parents, stack, seen, out) ==
    IF stack = <<>> THEN out
    ELSE LET current == Len(stack)
             iter == stack[current]
         IN IF iter = <<>>
            THEN PreorderWalk(parents, SubSeq(stack, 1, current - 1), seen, out)
            ELSE LET c == Head(iter)
                     rest == [stack EXCEPT ![current] = Tail(iter)]
                     seen2 == seen \cup {c}
                     filtered == SelectSeq(parents[c], LAMBDA h : h \notin seen2)
                 IN IF c \in seen
                    THEN PreorderWalk(parents, rest, seen, out)
                    ELSE PreorderWalk(parents,
                                      IF Len(parents[c]) > 0
                                      THEN Append(rest, filtered) ELSE rest,
                                      seen2, Append(out, c))

\* The walk that passes no seen-set of the caller to the iterator.
CommitPreorderIterAlone(parents, start, seenExternal, ignore) ==
    PreorderWalk(parents, << <<start>> >>, ignore, <<>>)

\* object.NewCommitPreorderIter(start, seenExternal, ignore), run to its end.
CommitPreorderIter(parents, start, seenExternal, ignore) ==
    PreorderWalk(parents, << <<start>> >>, seenExternal \cup ignore, <<>>)

\* The position of commit c in a walk (ancestors[c.Hash] of mergeBase).
RECURSIVE IndexOf(_, _, _)
IndexOf(s, c, i) ==
    IF i > Len(s) THEN 0 ELSE IF s[i] = c THEN i ELSE IndexOf(s, c, i + 1)

\* A mergeBase that takes the common ancestor closest to a, whether or not
\* one of its children is a common ancestor too.
mergeBaseNearest(parents, a, b) ==
    LET walkA == CommitPreorderIter(parents, a, {}, {})
        walkB == CommitPreorderIter(parents, b, {}, {})
        candidates == Range(walkA) \cap Range(walkB)
    IN IF candidates = {} THEN nullRevision
       ELSE CHOOSE h \in candidates :
                \A g \in candidates : IndexOf(walkA, h, 1) <= IndexOf(walkA, g, 1)

\* mergeBase(gitRepo, a, b): the common ancestor closest to a among those
\* with no child that is a common ancestor; nullRevision when there is none.
mergeBase(parents, a, b) ==
    LET walkA == CommitPreorderIter(parents, a, {}, {})
        walkB == CommitPreorderIter(parents, b, {}, {})
        ancestors == Range(walkA)
        commonAncestors == {c \in Range(walkB) : c \in ancestors}
        directDescendants(h) ==
            {c \in ancestors : h \in Range(parents[c])}
            \cup {c \in Range(walkB) \ commonAncestors : h \in Range(parents[c])}
        candidates == {h \in commonAncestors :
                          directDescendants(h) \cap commonAncestors = {}}
    IN IF candidates = {} THEN nullRevision
       ELSE CHOOSE h \in candidates :
                \A g \in candidates : IndexOf(walkA, h, 1) <= IndexOf(walkA, g, 1)

\* iter.ForEach over gitRepo.Branches(): the tips of the other branches.
OtherBranchTips(branches, refName) ==
    {branches[n] : n \in {m \in GitBranchNames :
                             /\ branches[m] # nullRevision
                             /\ refsHeadsPrefix \o m # refName}}

\* The `ignore` list of one record.
IgnoreOf(parents, branches, record) ==
    IF record.old = nullRevision
    THEN OtherBranchTips(branches, record.ref)
    ELSE {mergeBase(parents, record.new, record.old)} \ {nullRevision}

\* Reverse(s): the slice traversed from its last element to its first.
Reverse(s) == [i \in 1..Len(s) |-> s[Len(s) + 1 - i]]

\* The payload entries one record adds: the walk from the new revision,
\* reversed, each commit with the branch of the record.
RecordCommits(parents, branches, seen, record) ==
    LET walk == CommitPreorderIter(parents, record.new, seen,
                                   IgnoreOf(parents, branches, record))
        rev == Reverse(walk)
    IN [i \in 1..Len(rev) |-> [id |-> rev[i], branch |-> TrimHeadsPrefix(record.ref)]]

\* parsePushEvent reads its input: an empty input is an error.
GitParseBegin ==
    /\ gitPc = "start"
    /\ gitPc' = IF gitInput = <<>> THEN "error" ELSE "records"
    /\ gitIdx' = 1
    /\ gitSeen' = {}
    /\ gitPayload' = <<>>
    /\ UNCHANGED <<gitParents, gitBranches, gitInput>>
    /\ UNCHANGED nonGitVars

\* One pass of the loop over the records.
GitParseRecord ==
    /\ gitPc = "records"
    /\ gitIdx <= Len(gitInput)
    /\ LET record == gitInput[gitIdx]
           skipped == \/ record.new = nullRevision
                      \/ ~HasHeadsPrefix(record.ref)
           added == RecordCommits(gitParents, gitBranches, gitSeen, record)
       IN /\ gitPayload' = IF skipped THEN gitPayload ELSE gitPayload \o added
          /\ gitSeen' = IF skipped THEN gitSeen
                        ELSE gitSeen \cup {added[i].id : i \in 1..Len(added)}
    /\ gitIdx' = gitIdx + 1
    /\ UNCHANGED <<gitPc, gitParents, gitBranches, gitInput>>
    /\ UNCHANGED nonGitVars

\* parsePushEvent returns the payload.
GitParseReturn ==
    /\ gitPc = "records"
    /\ gitIdx > Len(gitInput)
    /\ gitPc' = "returned"
    /\ UNCHANGED <<gitIdx, gitSeen, gitPayload, gitParents, gitBranches, gitInput>>
    /\ UNCHANGED nonGitVars

\* The parent lists a commit can have: none for commit 1, else one or two
\* earlier commits.
ParentLists(c) ==
    IF c = 1 THEN {<<>>}
    ELSE {<<p>> : p \in 1..(c - 1)}
         \cup {pq \in (1..(c - 1)) \X (1..(c - 1)) : pq[1] # pq[2]}

\* The object stores of MaxCommits commits: sequences of parent lists.
RECURSIVE GitStores(_)
GitStores(n) ==
    IF n = 0 THEN {<<>>}
    ELSE {Append(d, ps) : d \in GitStores(n - 1), ps \in ParentLists(n)}

\* The record git writes for a ref it updated to `tip`: none when the push
\* left the ref alone, else the old revision, the new one and the ref name.
GitRecordsOf(refName, tip, olds) ==
    {<<>>} \cup {<<[old |-> o, new |-> tip, ref |-> refName]>> : o \in olds \ {tip}}

\* No push is being parsed.
GitIdle ==
    /\ gitPc = "idle"
    /\ gitIdx = 0
    /\ gitSeen = {}
    /\ gitPayload = <<>>
    /\ gitParents = [c \in Commits |-> <<>>]
    /\ gitBranches = [n \in GitBranchNames |-> nullRevision]
    /\ gitInput = <<>>

\* post-receive runs after the refs are updated: the repository holds the
\* pushed commits, each pushed branch is at its new revision (or gone), and
\* the input lists the updated refs.  Branch a is updated from any revision;
\* branch b is created, or updated from the root commit.
GitInit ==
    /\ gitPc = "start"
    /\ gitIdx = 0
    /\ gitSeen = {}
    /\ gitPayload = <<>>
    /\ gitParents \in GitStores(MaxCommits)
    /\ \E ta \in 0..MaxCommits, tb \in 0..MaxCommits :
          /\ gitBranches = [n \in GitBranchNames |-> IF n = "a" THEN ta ELSE tb]
          /\ \E ra \in GitRecordsOf(refsHeadsPrefix \o "a", ta, 0..MaxCommits),
                rb \in GitRecordsOf(refsHeadsPrefix \o "b", tb, {nullRevision, 1}) :
                gitInput = ra \o rb

GitNext ==
    \/ GitParseBegin
    \/ GitParseRecord
    \/ GitParseReturn

(***************************************************************************)
(* Installing the hooks of a repository (GitRepository.InstallHooks and    *)
(* installHook, HgRepository.InstallHooks).  A file is the string it holds; *)
(* the string "absent" stands for a path that does not exist.               *)
(***************************************************************************)
NoFile == "absent"

\* What a user's own hook holds, and the dispatcher rb-gateway installs.
UserHook == "#!/bin/true\n"

\* text/template executes a template node by node, each node in one Write
\* on the file: the texts between the actions, and the value of each action.
RECURSIVE JoinNodes(_)
JoinNodes(nodes) == IF nodes = <<>> THEN "" ELSE Head(nodes) \o JoinNodes(Tail(nodes))

\* The nodes of gitHookDispatchScriptTemplate with the hook data.
GitHookDispatchNodes(hookName) ==
    << "#!/bin/bash\n"
       \o "# Run hooks in .git/hooks/",
       hookName,
       ".d\n"
       \o "# This file was installed by rb-gateway.\n"
       \o "\n"
       \o "HOOK_DIR=$(dirname $0)/",
       hookName,
       ".d\n"
       \o "\n"
       \o "EXIT=0\n"
       \o "\n"
       \o "if [ -d \"$HOOK_DIR\" ]; then\n"
       \o "\tSTDIN=$(cat /dev/stdin)\n"
       \o "\tfor HOOK in ${HOOK_DIR}/*; do\n"
       \o "\t\tif [ -x \"$HOOK\" ]; then\n"
       \o "\t\t\techo -n \"$STDIN\" | \"$HOOK\" \"$@\"\n"
       \o "\t\tfi\n"
       \o "\tdone\n"
       \o "\tLAST_EXIT=$?\n"
       \o "\tif [ $LAST_EXIT != 0 ]; then\n"
       \o "\t\tEXIT=$LAST_EXIT\n"
       \o "\tfi\n"
       \o "fi\n"
       \o "\n"
       \o "exit $EXIT\n" >>

\* gitHookDispatchScriptTemplate executed with the hook data: the text of the
\* dispatcher for a hook name.
GitHookDispatchScript(hookName) == JoinNodes(GitHookDispatchNodes(hookName))

\* The arguments of install_hooks and the constants of the process.
\* One path needs no quoting, one is quoted as a whole and holds a single
\* quote, one has a character that is escaped with a backslash.
CfgPaths == {"/tmp/config1", "/tmp/it's 2", "/tmp/$3"}
ExePath == "/usr/bin/rb-gateway"
RepoName == "repo"

\* The characters go-shellquote escapes with a backslash, those that make it
\* quote the whole word, and the one it escapes at the start of a word.  The
\* backquote, also a special character, is in no word of this model.
specialChars == {"\\", "'", "\"", "$", "{", "[", "|", "&", ";", "<", ">", "(", ")", "*", "?", "!"}
extraSpecialChars == {" ", "\t", "\n"}
prefixChars == {"~"}

\* quote(word), first loop: every special character gets a backslash.
RECURSIVE QuoteEscaped(_, _)
QuoteEscaped(w, i) ==
    IF i > Len(w) THEN ""
    ELSE LET c == SubSeq(w, i, i) IN
         (IF c \in specialChars \/ (i = 1 /\ c \in prefixChars) THEN "\\" \o c ELSE c)
             \o QuoteEscaped(w, i + 1)

\* quote(word), quote mode: the text between single quotes of the word is
\* put in single quotes and each single quote of the word is written as \'
\* outside them.  Every pass of the loop ends with inQuote false.
RECURSIVE QuoteWhole(_)
QuoteWhole(word) ==
    IF word = "" THEN ""
    ELSE LET at == { i \in 1..Len(word) : SubSeq(word, i, i) = "'" } IN
         IF at = {} THEN "'" \o word \o "'"
         ELSE LET i == CHOOSE k \in at : \A j \in at : k <= j IN
              (IF i > 1 THEN "'" \o SubSeq(word, 1, i - 1) \o "'" ELSE "")
                  \o "\\'" \o QuoteWhole(SubSeq(word, i + 1, Len(word)))

\* shellquote.Join of one word: '' for the empty word; quote mode when the
\* scan meets a space, a tab or a newline; backslashes otherwise.
ShellQuote(w) ==
    IF w = "" THEN "''"
    ELSE IF \E i \in 1..Len(w) : SubSeq(w, i, i) \in extraSpecialChars THEN QuoteWhole(w)
    ELSE QuoteEscaped(w, 1)

\* The dispatcher rb-gateway installs for the push event.
DispatchNodes == GitHookDispatchNodes(ShellQuote("post-receive"))

DispatchScript == JoinNodes(DispatchNodes)

\* The nodes of gitHookScriptTemplate with the hook data.
GitHookScriptNodes(cfgPath) ==
    << "#!/bin/bash\nexec ", ShellQuote(ExePath), " --config ", ShellQuote(cfgPath),
       " trigger-webhooks ", ShellQuote(RepoName), " ", ShellQuote("push"), "\n" >>

\* gitHookScriptTemplate executed with the hook data.
GitHookScript(cfgPath) == JoinNodes(GitHookScriptNodes(cfgPath))

\* The value of the hgrc key changegroup.rbgateway: shellquote.Join of the
\* six words, each quoted and a space between them.
HgHookValue(cfgPath) ==
    ShellQuote(ExePath) \o " " \o ShellQuote("--config") \o " " \o ShellQuote(cfgPath)
        \o " " \o ShellQuote("trigger-webhooks") \o " " \o ShellQuote(RepoName)
        \o " " \o ShellQuote("push")

\* `force || os.IsNotExist(err)` and `!hookSection.HasKey(key) || force`.
Writes(force, content) == force \/ content = NoFile

\* An installation that never moves the original hook back.
RestoresNever(moved, failed) == FALSE

\* The deferred function of installHook: registered once the original hook
\* was renamed, it renames it back when the function returns an error.
Restores(moved, failed) == moved /\ failed

\* Where installHook can fail: ensureDir (os.Stat or os.Mkdir of
\* post-receive.d), the os.Stat and the os.Rename of the original hook, and
\* for the script and for the dispatcher os.Stat, os.OpenFile and t.Execute.
GitFailPoints == {"none", "ensureDir", "statOriginal", "rename",
                  "statScript", "openScript", "writeScript",
                  "statDispatch", "openDispatch", "writeDispatch"}

\* How many bytes of a template t.Execute can have written when one of its
\* Writes fails: the nodes before the failing one, and of the failing node
\* (a short write) up to MaxCut bytes that are not the whole node.
NodeCuts(nodes) ==
    { Len(JoinNodes(SubSeq(nodes, 1, k - 1))) + n :
        k \in 1..Len(nodes), n \in 0..MaxCut } \cap
    UNION { Len(JoinNodes(SubSeq(nodes, 1, k - 1))) .. (Len(JoinNodes(SubSeq(nodes, 1, k))) - 1) :
              k \in 1..Len(nodes) }

\* How many bytes of its file a failing installHook can have written.
\* os.OpenFile truncates the file and t.Execute writes the template node by
\* node, so a write that fails leaves a prefix of the text that is not the
\* whole text; a call that does not fail in t.Execute has no such choice.
WriteCuts(fail, cfgPath) ==
    CASE fail = "writeScript" -> NodeCuts(GitHookScriptNodes(cfgPath))
      [] fail = "writeDispatch" -> NodeCuts(DispatchNodes)
      [] OTHER -> {0}

\* installHook on the hooks directory `fs`: the files afterwards, whether a
\* step failed (hit), whether the original hook was renamed (moved), whether
\* the deferred function tried to rename it back (restores), and whether an
\* error is returned (failed).  The error is the named result `err`, and
\* the deferred function assigns it the result of its os.Rename: when the
\* original hook is renamed back, installHook returns nil.  A t.Execute
\* that fails has written the first `cut` bytes.
installHook(fs, cfgPath, force, fail, restoreFails, cut) ==
    LET ensureFailed == fail = "ensureDir"
        created == ~fs.dir /\ ~ensureFailed
        statFailed == created /\ fail = "statOriginal"
        moves == created /\ ~statFailed /\ fs.dispatch # NoFile
        renameFailed == moves /\ fail = "rename"
        moved == moves /\ ~renameFailed
        dispatch1 == IF moved THEN NoFile ELSE fs.dispatch
        original1 == IF moved THEN fs.dispatch ELSE fs.original
        early == ensureFailed \/ statFailed \/ renameFailed
        scriptStatFailed == ~early /\ ~force /\ fail = "statScript"
        writesScript == ~early /\ ~scriptStatFailed /\ Writes(force, fs.script)
        scriptFailed == writesScript /\ fail \in {"openScript", "writeScript"}
        script1 == IF writesScript /\ fail # "openScript"
                   THEN (IF fail = "writeScript" THEN SubSeq(GitHookScript(cfgPath), 1, cut)
                         ELSE GitHookScript(cfgPath))
                   ELSE fs.script
        beforeDispatch == early \/ scriptStatFailed \/ scriptFailed
        dispatchStatFailed == ~beforeDispatch /\ ~force /\ fail = "statDispatch"
        writesDispatch == ~beforeDispatch /\ ~dispatchStatFailed /\ Writes(force, dispatch1)
        dispatchFailed == writesDispatch /\ fail \in {"openDispatch", "writeDispatch"}
        dispatch2 == IF writesDispatch /\ fail # "openDispatch"
                     THEN (IF fail = "writeDispatch" THEN SubSeq(DispatchScript, 1, cut)
                           ELSE DispatchScript)
                     ELSE dispatch1
        hit == beforeDispatch \/ dispatchStatFailed \/ dispatchFailed
        restores == Restores(moved, hit)
        restored == restores /\ ~restoreFails
    IN [fs |-> [dir |-> fs.dir \/ created,
                dispatch |-> IF restored THEN original1 ELSE dispatch2,
                original |-> IF restored THEN NoFile ELSE original1,
                script |-> script1],
        hit |-> hit,
        failed |-> IF restores THEN restoreFails ELSE hit,
        moved |-> moved,
        restores |-> restores]

\* Where InstallHooks can fail before it calls installHook: repo.commonDir,
\* ensureDir(hookDir) and filepath.Abs(os.Args[0]).
GitEarlyFailPoints == {"commonDir", "hookDir", "exePath"}

\* GitRepository.InstallHooks on the hooks directory `fs`: the early steps,
\* then installHook for the one event of gitEvents.
InstallHooksOn(fs, cfgPath, force, fail, restoreFails, cut) ==
    IF fail \in GitEarlyFailPoints
    THEN [fs |-> fs, hit |-> TRUE, failed |-> TRUE, moved |-> FALSE, restores |-> FALSE]
    ELSE installHook(fs, cfgPath, force, fail, restoreFails, cut)

\* The command the claim about `force` predicts after one more call.
WantAfter(want, cmd, force) == IF force \/ want = NoFile THEN cmd ELSE want

\* GitRepository.InstallHooks(cfgPath, force), failing at `fail` or not at
\* all, with a rename back that fails or not, and with `cut` bytes written
\* by a t.Execute that fails.
GitInstallHooks(cfgPath, force, fail, restoreFails, cut) ==
    /\ ihScm = "git"
    /\ ihCalls < MaxInstalls
    /\ cut \in WriteCuts(fail, cfgPath)
    /\ LET r == InstallHooksOn(ihFs, cfgPath, force, fail, restoreFails, cut)
       IN /\ fail # "none" => r.hit
          /\ restoreFails => r.restores
          /\ ihFs' = r.fs
          /\ ihLast' = [force |-> force, hit |-> r.hit, failed |-> r.failed, moved |-> r.moved,
                        restoreFailed |-> restoreFails, pre |-> ihFs.script]
    /\ ihWant' = WantAfter(ihWant, GitHookScript(cfgPath), force)
    /\ ihCalls' = ihCalls + 1
    /\ UNCHANGED <<ihScm, ihHgKey, ihUser0>>
    /\ UNCHANGED nonInstVars

\* Where HgRepository.InstallHooks can fail: before the hgrc is changed
\* (repo.Client, ini.Load, getExePath), and in hgrc.SaveTo when it opens the
\* hgrc or when it writes it.
HgFailPoints == {"none", "load", "saveOpen", "saveWrite"}

\* What the hgrc holds under the key when hgrc.SaveTo has failed in its
\* write.  SaveTo opens the hgrc with O_TRUNC and writes the whole file
\* again, so the file is cut somewhere: before the key (the key is gone),
\* within its value (up to MaxCut bytes of it are there), or after it.
HgCutValues(value) ==
    {NoFile, value} \cup { SubSeq(value, 1, n) : n \in { m \in 0..MaxCut : m <= Len(value) } }

\* HgRepository.InstallHooks(cfgPath, force): the hgrc is loaded, the key is
\* set when it is missing or force is given, and the hgrc is saved, whether
\* the key was set or not.  `left` is what a failing write leaves of the key.
HgInstallHooks(cfgPath, force, fail, left) ==
    /\ ihScm = "hg"
    /\ ihCalls < MaxInstalls
    /\ LET value == IF Writes(force, ihHgKey) THEN HgHookValue(cfgPath) ELSE ihHgKey
       IN /\ left \in (IF fail = "saveWrite" THEN HgCutValues(value) ELSE {value})
          /\ ihHgKey' = CASE fail = "none" -> value
                          [] fail = "saveWrite" -> left
                          [] OTHER -> ihHgKey
    /\ ihLast' = [force |-> force, hit |-> fail # "none", failed |-> fail # "none",
                  moved |-> FALSE, restoreFailed |-> FALSE, pre |-> ihHgKey]
    /\ ihWant' = WantAfter(ihWant, HgHookValue(cfgPath), force)
    /\ ihCalls' = ihCalls + 1
    /\ UNCHANGED <<ihScm, ihFs, ihUser0>>
    /\ UNCHANGED nonInstVars

NoInstall ==
    [force |-> FALSE, hit |-> FALSE, failed |-> FALSE, moved |-> FALSE, restoreFailed |-> FALSE,
     pre |-> NoFile]

InstWith(scm, dispatch, dir) ==
    /\ ihScm = scm
    /\ ihFs = [dir |-> dir, dispatch |-> dispatch, original |-> NoFile, script |-> NoFile]
    /\ ihHgKey = NoFile
    /\ ihCalls = 0
    /\ ihLast = NoInstall
    /\ ihWant = NoFile
    /\ ihUser0 = (dispatch # NoFile)

\* No repository is having its hooks installed.
InstIdle == InstWith("none", NoFile, FALSE)

\* A Mercurial repository without the key, or a Git repository without
\* rb-gateway's hooks: it may have a hook of its own at hooks/post-receive and
\* a directory hooks/post-receive.d.
InstInit ==
    \/ InstWith("hg", NoFile, FALSE)
    \/ \E dispatch \in {NoFile, UserHook}, dir \in BOOLEAN : InstWith("git", dispatch, dir)

InstNext ==
    \/ \E c \in CfgPaths, force \in BOOLEAN, fail \in GitFailPoints \cup GitEarlyFailPoints,
             restoreFails \in BOOLEAN :
          \E cut \in WriteCuts(fail, c) : GitInstallHooks(c, force, fail, restoreFails, cut)
    \/ \E c \in CfgPaths, force \in BOOLEAN, fail \in HgFailPoints :
          \E left \in HgCutValues(HgHookValue(c)) \cup HgCutValues(ihHgKey) :
             HgInstallHooks(c, force, fail, left)

(***************************************************************************)
(* The dispatcher rb-gateway installs at hooks/post-receive                *)
(* (gitHookDispatchScriptTemplate), run by bash.                            *)
(***************************************************************************)
ExitCodes == {0, 1, 2}

\* The files of post-receive.d in the order the glob lists them.
RECURSIVE HookLists(_)
HookLists(n) ==
    IF n = 0 THEN {<<>>}
    ELSE HookLists(n - 1)
         \cup {Append(l, [exec |-> x, code |-> c]) :
                  l \in {k \in HookLists(n - 1) : Len(k) = n - 1},
                  x \in BOOLEAN, c \in ExitCodes}

\* EXIT=0; if [ -d "$HOOK_DIR" ]; then STDIN=$(cat /dev/stdin)
DispatchStart ==
    /\ dhPc = "start"
    /\ dhPc' = IF dhDir THEN "loop" ELSE "exit"
    /\ dhIdx' = 1
    /\ UNCHANGED <<dhDir, dhHooks, dhStatus, dhRan, dhExit>>
    /\ UNCHANGED nonDispVars

\* One pass of `for HOOK in ${HOOK_DIR}/*`: an executable file is run with
\* the input and $? becomes its exit status; for any other file the `if`
\* runs no command and $? becomes 0.
DispatchHook ==
    /\ dhPc = "loop"
    /\ dhIdx <= Len(dhHooks)
    /\ dhStatus' = IF dhHooks[dhIdx].exec THEN dhHooks[dhIdx].code ELSE 0
    /\ dhRan' = IF dhHooks[dhIdx].exec THEN dhRan \cup {dhIdx} ELSE dhRan
    /\ dhIdx' = dhIdx + 1
    /\ UNCHANGED <<dhDir, dhHooks, dhPc, dhExit>>
    /\ UNCHANGED nonDispVars

\* done; LAST_EXIT=$?; if [ $LAST_EXIT != 0 ]; then EXIT=$LAST_EXIT; fi
DispatchDone ==
    /\ dhPc = "loop"
    /\ dhIdx > Len(dhHooks)
    /\ dhExit' = IF dhStatus # 0 THEN dhStatus ELSE dhExit
    /\ dhPc' = "exit"
    /\ UNCHANGED <<dhDir, dhHooks, dhIdx, dhStatus, dhRan>>
    /\ UNCHANGED nonDispVars

\* exit $EXIT
DispatchExit ==
    /\ dhPc = "exit"
    /\ dhPc' = "exited"
    /\ UNCHANGED <<dhDir, dhHooks, dhIdx, dhStatus, dhRan, dhExit>>
    /\ UNCHANGED nonDispVars

DispWith(pc, dir, hooks) ==
    /\ dhPc = pc
    /\ dhDir = dir
    /\ dhHooks = hooks
    /\ dhIdx = 0
    /\ dhStatus = 0
    /\ dhRan = {}
    /\ dhExit = 0

\* No dispatcher runs.
DispIdle == DispWith("idle", FALSE, <<>>)

\* git runs the dispatcher: post-receive.d holds up to MaxHooks files, or
\* does not exist.
DispInit ==
    \/ DispWith("start", FALSE, <<>>)
    \/ \E hooks \in HookLists(MaxHooks) : DispWith("start", TRUE, hooks)

DispNext ==
    \/ DispatchStart
    \/ DispatchHook
    \/ DispatchDone
    \/ DispatchExit

(***************************************************************************)
(* Saving a webhook store, loading the file and saving again                *)
(* (WebhookStore.Write, LoadStore).                                         *)
(***************************************************************************)
\* Hooks as a loaded store holds them: the lists sorted and valid.
RtHooks(id) ==
    { BaseHook(id),
      [BaseHook(id) EXCEPT !.repos = <<"other", "repo">>],
      [BaseHook(id) EXCEPT !.enabled = FALSE],
      [BaseHook(id) EXCEPT !.secret = SecretB, !.url = "https://example.com/2/"] }

\* The order of `for _, hook := range s`: Go leaves the iteration order of a
\* map unspecified, and it differs from one loop to the next.
MapOrders(store) == Orderings(StoreKeys(store))

\* WebhookStore.Write: the hooks in the order the map gives them, marshalled.
WriteStore(store, order) ==
    MarshalStore([i \in 1..Len(order) |-> store[order[i]]])

\* s.Save(path), the file being replaced by what Write wrote.
RtSave(order) ==
    /\ rtPc \in {"fresh", "loaded"}
    /\ order \in MapOrders(rtStore)
    /\ rtFile' = WriteStore(rtStore, order)
    /\ rtFirst' = IF rtPc = "fresh" THEN WriteStore(rtStore, order) ELSE rtFirst
    /\ rtPc' = IF rtPc = "fresh" THEN "saved" ELSE "resaved"
    /\ UNCHANGED rtStore
    /\ UNCHANGED nonRtVars

\* LoadStore(path, repositories) on the file that was saved.
RtLoadStore ==
    /\ rtPc = "saved"
    /\ LET u == UnmarshalStore(rtFile)
       IN rtStore' = IF u.ok THEN ReadStore(u.raw, ConfigRepos) ELSE EmptyStore
    /\ rtPc' = "loaded"
    /\ UNCHANGED <<rtFile, rtFirst>>
    /\ UNCHANGED nonRtVars

RtWith(pc, store) ==
    /\ rtPc = pc
    /\ rtStore = store
    /\ rtFile = <<>>
    /\ rtFirst = <<>>

\* No store is being saved and loaded.
RtIdle == RtWith("idle", EmptyStore)

\* A store of at most one hook per id.
RtInit ==
    \E h1 \in {NoEntry} \cup RtHooks("h1"), h2 \in {NoEntry} \cup RtHooks("h2") :
        RtWith("fresh", [k \in HookIds |-> IF k = "h1" THEN h1 ELSE h2])

RtNext ==
    \/ \E order \in UNION {Orderings(S) : S \in SUBSET HookIds} : RtSave(order)
    \/ RtLoadStore

(***************************************************************************)
(* Specifications.                                                         *)

(***************************************************************************)
(* The reinstall-hooks command (commands/reinstall_hooks.go).              *)
(***************************************************************************)
MaxRepos == 3

\* The names a configuration file can give its repositories.
RepoNames == 1..MaxRepos

\* An installHooks that returns at the first error.
RemainingAfterStop(todo, r, failed) == IF failed THEN {} ELSE todo \ {r}

\* for _, repository := range cfg.Repositories: after the pass for r, with
\* or without an error, the loop goes on with the other repositories.
RemainingAfter(todo, r, failed) == todo \ {r}

\* ReinstallHooks: config.Load; an error ends the process in log.Fatal
\* (exit status 1); otherwise installHooks(cfg, configPath, true) begins.
ReinstallLoad(loads) ==
    /\ rhPc = "start"
    /\ IF loads
       THEN /\ rhPc' = "loop"
            /\ rhLoaded' = TRUE
            /\ rhTodo' = rhCfg
            /\ UNCHANGED rhExit
       ELSE /\ rhPc' = "exited"
            /\ rhExit' = 1
            /\ UNCHANGED <<rhLoaded, rhTodo>>
    /\ UNCHANGED <<rhCfg, rhCalls, rhErrors, rhBroken>>
    /\ UNCHANGED nonReinstVars

\* The hooks directories of the Git repositories of a configuration.
GitHookDirs ==
    { [dir |-> dir, dispatch |-> dispatch, original |-> NoFile, script |-> NoFile] :
        dir \in BOOLEAN, dispatch \in {NoFile, UserHook} }

\* What repository.InstallHooks(configPath, true) comes to on a repository:
\* whether a step of it failed (hit) and whether it returned an error.
ForcedInstallOutcomes ==
    { [hit |-> r.hit, failed |-> r.failed] :
        r \in UNION { { InstallHooksOn(fs, "/tmp/config1", TRUE, fail, restoreFails, cut) :
                          fs \in GitHookDirs, restoreFails \in BOOLEAN,
                          cut \in WriteCuts(fail, "/tmp/config1") } :
                        fail \in GitFailPoints \cup GitEarlyFailPoints } }

\* One pass of the loop of installHooks, in the order the map gives:
\* repository.InstallHooks(configPath, force), its error appended and logged.
InstallHooksPass(r, outcome) ==
    /\ rhPc = "loop"
    /\ r \in rhTodo
    /\ rhCalls' = rhCalls \cup {[repo |-> r, force |-> TRUE]}
    /\ rhErrors' = IF outcome.failed THEN Append(rhErrors, r) ELSE rhErrors
    /\ rhBroken' = IF outcome.hit THEN rhBroken \cup {r} ELSE rhBroken
    /\ rhTodo' = RemainingAfter(rhTodo, r, outcome.failed)
    /\ UNCHANGED <<rhPc, rhCfg, rhLoaded, rhExit>>
    /\ UNCHANGED nonReinstVars

\* installHooks returns errors; ReinstallHooks calls os.Exit(1) when there
\* are any and returns (exit status 0) otherwise.
ReinstallExit ==
    /\ rhPc = "loop"
    /\ rhTodo = {}
    /\ rhPc' = "exited"
    /\ rhExit' = IF Len(rhErrors) # 0 THEN 1 ELSE 0
    /\ UNCHANGED <<rhCfg, rhLoaded, rhTodo, rhCalls, rhErrors, rhBroken>>
    /\ UNCHANGED nonReinstVars

ReinstWith(pc, repos) ==
    /\ rhPc = pc
    /\ rhCfg \in repos
    /\ rhLoaded = FALSE
    /\ rhTodo = {}
    /\ rhCalls = {}
    /\ rhErrors = <<>>
    /\ rhBroken = {}
    /\ rhExit = -1

\* reinstall-hooks does not run.
ReinstIdle == ReinstWith("idle", {{}})

\* reinstall-hooks starts on a configuration file with any repositories.
ReinstInit == ReinstWith("start", SUBSET RepoNames)

ReinstNext ==
    \/ \E loads \in BOOLEAN : ReinstallLoad(loads)
    \/ \E r \in RepoNames, outcome \in ForcedInstallOutcomes : InstallHooksPass(r, outcome)
    \/ ReinstallExit


(***************************************************************************)
(* mergeBase called on two commits of any object store, histories without  *)
(* a common root included.                                                 *)
(***************************************************************************)
\* The parent lists a commit can have when it may also be a root.
RootOrParentLists(c) == {<<>>} \cup ParentLists(c)

RECURSIVE MbStores(_)
MbStores(n) ==
    IF n = 0 THEN {<<>>}
    ELSE {Append(d, ps) : d \in MbStores(n - 1), ps \in RootOrParentLists(n)}

\* mergeBase(gitRepo, a, b) runs and returns.
MergeBaseCall ==
    /\ mbPc = "start"
    /\ mbBest' = mergeBase(mbParents, mbA, mbB)
    /\ mbPc' = "returned"
    /\ UNCHANGED <<mbParents, mbA, mbB>>
    /\ UNCHANGED nonMbVars

MbIdle ==
    /\ mbPc = "idle"
    /\ mbParents = [c \in Commits |-> <<>>]
    /\ mbA = 1
    /\ mbB = 1
    /\ mbBest = nullRevision

MbInit ==
    /\ mbPc = "start"
    /\ mbParents \in MbStores(MaxCommits)
    /\ mbA \in Commits
    /\ mbB \in Commits
    /\ mbBest = nullRevision

MbNext == MergeBaseCall


(***************************************************************************)
(* FileStore.Save as the file system sees it: the file at store.path while *)
(* Save opens and writes it.  (For the callers of the store Save is one     *)
(* step under the lock; for another process, or after a crash, the file is  *)
(* what has been written so far.)                                           *)
(***************************************************************************)
AllTokens == { FormatX(r) : r \in RawValues }

\* The texts an earlier Save of some of the tokens has left in the file.
SavedTexts(tokens) ==
    UNION { { JsonMarshal(o, go) : o \in Orderings(T), go \in Toolchains } : T \in SUBSET tokens }

NoTokenFile == [exists |-> FALSE, text |-> <<>>]

TokenFile(text) == [exists |-> TRUE, text |-> text]

\* Save up to f.Write: os.OpenFile(store.path, O_WRONLY|O_CREATE, 0600)
\* creates the file when there is none and leaves its content when there is
\* one; the tokens are marshalled in the map's order.
TokSaveOpen(opened) ==
    /\ tkPc = "start"
    /\ IF opened
       THEN /\ tkFile' = TokenFile(tkFile.text)
            /\ \E order \in Orderings(tkTokens), go \in Toolchains :
                 tkBytes' = JsonMarshal(order, go)
            /\ tkPc' = "write"
       ELSE /\ tkPc' = "returned"
            /\ UNCHANGED <<tkFile, tkBytes>>
    /\ UNCHANGED <<tkTokens, tkBefore, tkN>>
    /\ UNCHANGED nonTkVars

\* f.Write(bytes): the next byte is put into the file, from offset 0 on.
TokSaveWrite ==
    /\ tkPc = "write"
    /\ tkN < Len(tkBytes)
    /\ tkFile' = TokenFile(WriteFile(tkFile.text, SubSeq(tkBytes, 1, tkN + 1)))
    /\ tkN' = tkN + 1
    /\ UNCHANGED <<tkTokens, tkBefore, tkPc, tkBytes>>
    /\ UNCHANGED nonTkVars

\* f.Write returns: an error part of the way, or nil after the last byte.
TokSaveReturn ==
    /\ tkPc = "write"
    /\ tkPc' = "returned"
    /\ UNCHANGED <<tkTokens, tkFile, tkBefore, tkBytes, tkN>>
    /\ UNCHANGED nonTkVars

TkIdle ==
    /\ tkPc = "idle"
    /\ tkTokens = {}
    /\ tkFile = NoTokenFile
    /\ tkBefore = NoTokenFile
    /\ tkBytes = <<>>
    /\ tkN = 0

\* Save is called on a store whose file is missing, empty, or as an earlier
\* Save of some of its tokens left it.
TkInit ==
    /\ tkPc = "start"
    /\ tkTokens \in SUBSET AllTokens
    /\ tkFile \in {NoTokenFile, TokenFile(<<>>)} \cup { TokenFile(t) : t \in SavedTexts(tkTokens) }
    /\ tkBefore = tkFile
    /\ tkBytes = <<>>
    /\ tkN = 0

TkNext ==
    \/ \E opened \in BOOLEAN : TokSaveOpen(opened)
    \/ TokSaveWrite
    \/ TokSaveReturn


(***************************************************************************)
(* The session endpoint: API.getSession on a token store whose New() can   *)
(* fail (api/routes.go, api/tokens/memory_store.go).                       *)
(***************************************************************************)
RandFails == [ok |-> FALSE, raw |-> <<>>]

RandGives(raw) == [ok |-> TRUE, raw |-> raw]

\* The results of the maxAttempts calls of rand.Read: the same bytes until
\* call k, and from call k on other bytes or an error.
DrawSeqs ==
    { [i \in 1..maxAttempts |-> IF i < k THEN RandGives(r) ELSE later] :
        r \in RawValues, k \in 1..(maxAttempts + 1),
        later \in {RandFails} \cup {RandGives(q) : q \in RawValues} }

\* MemoryStore.New from attempt i on.
RECURSIVE MemoryStoreNewFrom(_, _, _)
MemoryStoreNewFrom(store, draws, i) ==
    IF i > maxAttempts THEN [err |-> TRUE, token |-> <<>>, store |-> store]
    ELSE IF ~draws[i].ok THEN [err |-> TRUE, token |-> <<>>, store |-> store]
    ELSE LET token == FormatX(draws[i].raw) IN
         IF token \notin store
         THEN [err |-> FALSE, token |-> token, store |-> store \cup {token}]
         ELSE MemoryStoreNewFrom(store, draws, i + 1)

\* MemoryStore.New; token <<>> stands for the nil pointer.
MemoryStoreNew(store, draws) == MemoryStoreNewFrom(store, draws, 1)

NotMade == [err |-> FALSE, token |-> <<>>]

NoSessionResponse == [status |-> 0, token |-> <<>>, panicked |-> FALSE]

\* getSession after api.tokenStore.New(): on an error http.Error writes
\* status 500, and the handler goes on to `PrivateToken: *token`, which for
\* the nil token is a run-time panic (nil pointer dereference); otherwise
\* the session is marshalled and written (status 200).
getSession(made) ==
    IF made.err THEN [status |-> 500, token |-> <<>>, panicked |-> TRUE]
    ELSE [status |-> 200, token |-> made.token, panicked |-> FALSE]

\* One GET /session with valid credentials.
SessionCall ==
    /\ sePc = "start"
    /\ LET made == MemoryStoreNew(seStore, seDraws) IN
         /\ seStore' = made.store
         /\ seMade' = [err |-> made.err, token |-> made.token]
         /\ seResp' = getSession(made)
    /\ sePc' = "done"
    /\ UNCHANGED seDraws
    /\ UNCHANGED nonSessVars

SessIdle ==
    /\ sePc = "idle"
    /\ seStore = {}
    /\ seDraws = [i \in 1..maxAttempts |-> RandFails]
    /\ seMade = NotMade
    /\ seResp = NoSessionResponse

SessInit ==
    /\ sePc = "start"
    /\ seStore \in SUBSET AllTokens
    /\ seDraws \in DrawSeqs
    /\ seMade = NotMade
    /\ seResp = NoSessionResponse

SessNext == SessionCall

(***************************************************************************)
\* Concurrent callers of one store: issuance, existence checks and saves.
TokNext ==
    \/ \E p \in Callers : Invoke(p, "new", <<>>)
    \/ \E p \in Callers : Invoke(p, "save", <<>>)
    \/ \E p \in Callers, r \in RawValues : Invoke(p, "exists", FormatX(r))
    \/ \E p \in Callers : FileStoreLock(p)
    \/ \E p \in Callers : NewDraw(p)
    \/ \E p \in Callers : NewInsert(p)
    \/ \E p \in Callers : NewExhausted(p)
    \/ \E p \in Callers : ExistsBody(p)
    \/ \E p \in Callers : SaveBody(p)

\* A token store in use; no webhook request and no serve loop step is taken.
InitTokens == TokInit /\ HookIdle /\ ServeInit /\ TrigIdle /\ ConcIdle /\ GitIdle /\ InstIdle /\ DispIdle /\ RtIdle /\ ReinstIdle /\ MbIdle /\ TkIdle /\ SessIdle

SpecTokens == InitTokens /\ [][TokNext]_vars

\* One caller at a time: issuance, requests through the token-required
\* middleware, saves, and stores constructed again from the file.
TokSeqNext ==
    \/ Invoke(1, "new", <<>>)
    \/ Invoke(1, "save", <<>>)
    \/ \E h \in HeaderValues : Invoke(1, "auth", h)
    \/ FileStoreLock(1)
    \/ NewDraw(1)
    \/ NewInsert(1)
    \/ NewExhausted(1)
    \/ AuthBody(1)
    \/ SaveBody(1)
    \/ Reopen

InitTokenFile == TokFileInit /\ HookIdle /\ ServeInit /\ TrigIdle /\ ConcIdle /\ GitIdle /\ InstIdle /\ DispIdle /\ RtIdle /\ ReinstIdle /\ MbIdle /\ TkIdle /\ SessIdle

SpecTokenFile == InitTokenFile /\ [][TokSeqNext]_vars

\* The webhook handlers, one request at a time (api.hookStoreLock).
InitHooks == HookInit /\ TokIdle /\ ServeInit /\ TrigIdle /\ ConcIdle /\ GitIdle /\ InstIdle /\ DispIdle /\ RtIdle /\ ReinstIdle /\ MbIdle /\ TkIdle /\ SessIdle

SpecHooks == InitHooks /\ [][HookNext]_vars

\* The serve loop, the listener goroutine and the request handlers.
InitServe == ServeBoot /\ TokIdle /\ HookIdle /\ TrigIdle /\ ConcIdle /\ GitIdle /\ InstIdle /\ DispIdle /\ RtIdle /\ ReinstIdle /\ MbIdle /\ TkIdle /\ SessIdle

SpecServe == InitServe /\ [][ServeNext]_vars

\* The serve loop and the listener goroutine are goroutines of a running
\* process: a step of theirs that stays possible is taken.  server.Shutdown
\* returns, at its deadline at the latest.  Nothing is assumed of signals,
\* of the watcher, of requests and of the handlers.
ServeFairness ==
    /\ WF_vars(\E loads \in BOOLEAN, fail \in CfgFailures : ServeStart(loads, fail))
    /\ WF_vars(LoopServe)
    /\ WF_vars(ListenerStart)
    /\ WF_vars(ListenerLate)
    /\ WF_vars(ListenerExit)
    /\ WF_vars(ShutdownBegin)
    /\ WF_vars(ShutdownGraceful \/ ShutdownTimeout)
    /\ WF_vars(ShutdownLock)
    /\ WF_vars(\E saved \in BOOLEAN, left \in SaveLeaves : ShutdownSave(saved, left))
    /\ WF_vars(LoopAfterShutdown)
    /\ WF_vars(SetConfigLock)
    /\ WF_vars(SetConfigConstruct)
    /\ WF_vars(SetConfigAssign)
    /\ WF_vars(LoopInstallHooks)

SpecServeLive == InitServe /\ [][ServeNext]_vars /\ ServeFairness

\* trigger-webhooks on a store file that nothing writes.
InitTrigger == TrigInit /\ TokIdle /\ HookIdle /\ ServeInit /\ ConcIdle /\ GitIdle /\ InstIdle /\ DispIdle /\ RtIdle /\ ReinstIdle /\ MbIdle /\ TkIdle /\ SessIdle

SpecTrigger == InitTrigger /\ [][TrigNext]_vars

\* trigger-webhooks while the server saves the store file.
InitSaveRead == SaveReadInit /\ TokIdle /\ HookIdle /\ ServeInit /\ ConcIdle /\ GitIdle /\ InstIdle /\ DispIdle /\ RtIdle /\ ReinstIdle /\ MbIdle /\ TkIdle /\ SessIdle

SpecSaveRead == InitSaveRead /\ [][SaveReadNext]_vars

\* Concurrent webhook requests on one API object.
InitHookConc == ConcInit /\ TokIdle /\ HookIdle /\ ServeInit /\ TrigIdle /\ GitIdle /\ InstIdle /\ DispIdle /\ RtIdle /\ ReinstIdle /\ MbIdle /\ TkIdle /\ SessIdle

SpecHookConc == InitHookConc /\ [][ConcNext]_vars

\* post-receive pushes parsed into payloads.
InitGitPush == GitInit /\ TokIdle /\ HookIdle /\ ServeInit /\ TrigIdle /\ ConcIdle /\ InstIdle /\ DispIdle /\ RtIdle /\ ReinstIdle /\ MbIdle /\ TkIdle /\ SessIdle

SpecGitPush == InitGitPush /\ [][GitNext]_vars

\* InstallHooks calls on one repository, failing or not.
InitInstall == InstInit /\ TokIdle /\ HookIdle /\ ServeInit /\ TrigIdle /\ ConcIdle /\ GitIdle /\ DispIdle /\ RtIdle /\ ReinstIdle /\ MbIdle /\ TkIdle /\ SessIdle

SpecInstall == InitInstall /\ [][InstNext]_vars

\* One run of the dispatcher script.
InitDispatch == DispInit /\ TokIdle /\ HookIdle /\ ServeInit /\ TrigIdle /\ ConcIdle /\ GitIdle /\ InstIdle /\ RtIdle /\ ReinstIdle /\ MbIdle /\ TkIdle /\ SessIdle

SpecDispatch == InitDispatch /\ [][DispNext]_vars

\* A store saved, loaded from the file and saved again.
InitRoundTrip == RtInit /\ TokIdle /\ HookIdle /\ ServeInit /\ TrigIdle /\ ConcIdle /\ GitIdle /\ InstIdle /\ DispIdle /\ ReinstIdle /\ MbIdle /\ TkIdle /\ SessIdle

SpecRoundTrip == InitRoundTrip /\ [][RtNext]_vars

InitReinstall == ReinstInit /\ TokIdle /\ HookIdle /\ ServeInit /\ TrigIdle /\ ConcIdle /\ GitIdle /\ InstIdle /\ DispIdle /\ RtIdle /\ MbIdle /\ TkIdle /\ SessIdle

SpecReinstall == InitReinstall /\ [][ReinstNext]_vars

InitMergeBase == MbInit /\ TokIdle /\ HookIdle /\ ServeInit /\ TrigIdle /\ ConcIdle /\ GitIdle /\ InstIdle /\ DispIdle /\ RtIdle /\ ReinstIdle /\ TkIdle /\ SessIdle

SpecMergeBase == InitMergeBase /\ [][MbNext]_vars

InitTokenSave == TkInit /\ TokIdle /\ HookIdle /\ ServeInit /\ TrigIdle /\ ConcIdle /\ GitIdle /\ InstIdle /\ DispIdle /\ RtIdle /\ ReinstIdle /\ MbIdle /\ SessIdle

SpecTokenSave == InitTokenSave /\ [][TkNext]_vars

InitSession == SessInit /\ TokIdle /\ HookIdle /\ ServeInit /\ TrigIdle /\ ConcIdle /\ GitIdle /\ InstIdle /\ DispIdle /\ RtIdle /\ ReinstIdle /\ MbIdle /\ TkIdle

SpecSession == InitSession /\ [][SessNext]_vars

(***************************************************************************)
(* Claims about the token store.                                           *)
(***************************************************************************)

\* C5: a request to a token-protected route reaches its handler only if its
\* PRIVATE-TOKEN header is exactly 64 characters long and is a member of the
\* token store; every other request is answered 401 and the wrapped handler
\* is not invoked.
C5_TokenRequired ==
    \A p \in Callers :
        (tpc[p] = "done" /\ top[p].op = "auth") =>
            /\ top[p].res \in {"next", "401"}
            /\ top[p].res = "next" <=>
                   (Len(top[p].arg) = TokenSize /\ top[p].arg \in tsTokens)

\* A request with an issued token has reached its handler.
C5_Witness ==
    \E p \in Callers :
        /\ tpc[p] = "done" /\ top[p].op = "auth" /\ top[p].res = "next"
        /\ top[p].arg \in Range(tsIssued)

\* C6: two distinct calls to New() on one token store never return equal
\* tokens, in any interleaving of the calls.
C6_UniqueTokens ==
    \A i, j \in DOMAIN tsIssued : i # j => tsIssued[i] # tsIssued[j]

\* Two calls to New() on one store have returned.
C6_Witness == Len(tsIssued) >= 2

C8_SaveLoadMembership ==
    (tsLoaded # "none" /\ tsSaved # {}) =>
        /\ tsLoaded = "ok"
        /\ \A t \in tsSaved : MemoryStoreExists(tsTokens, t)

(***************************************************************************)
(* Claims about the webhook handlers.                                      *)
(***************************************************************************)

\* C10: when saving the webhook store fails during a create, update or
\* delete request, the in-memory store after the request is exactly the store
\* before it (same ids, same hooks) and the response has an error status.
\* DELETE of an id that is not in the store breaks it: the handler goes on
\* after its 404, and a failed save puts a nil entry under the id.
C10_RollbackOnSaveFailure ==
    hookResp.saveFailed => (hookResp.restored /\ hookResp.status >= 400)

(***************************************************************************)
(* Claims about the API lifecycle and the serve loop.                      *)
(***************************************************************************)

\* C1: SetConfig assigns the token store, the credential verifier, the
\* webhook store and the config only after all three constructions have
\* succeeded: while they are under way, and after a SetConfig that returned
\* an error, all four fields are those from before the call; an assignment
\* is made only for a configuration whose three constructions succeed, and
\* after a SetConfig that returned nil all four come from the new config.
C1_AllOrNothing ==
    /\ loopPc = "construct" => apiCfg = reloadPre
    /\ reloadOutcome = "setconfig" => apiCfg = reloadPre
    /\ loopPc = "assign" =>
          ~(NewStoreFails(newCfg) \/ ProviderFails(newCfg) \/ LoadStoreFails(newCfg))
    /\ reloadOutcome = "ok" => apiCfg = ApiOf(newCfg.gen)

\* SetConfig has returned the error of the last construction, the webhook
\* store's, after the token store and the verifier had been built.
C1_Witness == reloadOutcome = "setconfig" /\ newCfg.fail = "hooks"

\* C2: a handler that started after a successful SetConfig returned reads
\* no field of the API object (config, token store, credential verifier,
\* webhook store) that dates from before that SetConfig.
C2_NoPreSwapAfterReturn ==
    \A h \in Handlers : \A g \in hnd[h].seen : g >= hnd[h].start

\* A request accepted after a reload has completed, having read fields.
C2_Witness ==
    \E h \in Handlers :
        hnd[h].pc = "done" /\ hnd[h].start >= 2 /\ hnd[h].route = "webhooks"
            /\ hnd[h].k = Len(RouteReads.webhooks)

\* C3: no handler reads fields of the API object that belong to different
\* configurations.  A handler that outlives the grace period of Shutdown
\* runs on through SetConfig, so it breaks this (see C9).
C3_NoMixture ==
    \A h \in Handlers : Cardinality(hnd[h].seen) <= 1

\* C4: after a reload attempt has failed (the configuration cannot be
\* loaded, it selects ":memory:", or SetConfig returned an error) the API
\* object is as before the attempt and the serve loop is about to serve
\* again.  A failed ForceReload ends the process instead.
C4_FailedReloadKeepsServing ==
    reloadOutcome \in ReloadFailures => (apiCfg = reloadPre /\ loopPc = "serve")

\* C9: when Shutdown, on an interrupt or terminate signal, is at
\* tokenStore.Save(), the writer lock is held and no handler is running.
\* server.Shutdown gives up at its deadline and leaves the handlers running.
C9_NoHandlerAtSave ==
    (loopPc = "save" /\ shouldExit) =>
        (cfgLock.writer /\ \A h \in Handlers : ~Running(h))

\* C11: after every completed create, update or delete request the hooks of
\* the in-memory store are the hooks in the store file (none when there is
\* no file).  The nil entry that a failed DELETE of an unknown id leaves in
\* memory (see C10) is not in the file.
C11_MemoryEqualsFile ==
    hookResp.op \in {"create", "update", "delete"} =>
        { hookStore[k] : k \in StoreKeys(hookStore) } = hookFile.hooks

\* C12: every hook in the in-memory store has its events and its repos in
\* ascending order.  createHook and updateHook store the lists as given.
C12_ListsSorted ==
    \A k \in StoreKeys(hookStore) :
        hookStore[k] # NilHook =>
            IsSorted(hookStore[k].events) /\ IsSorted(hookStore[k].repos)

\* The text of a URL begins with the scheme and a colon; the letters of a
\* scheme count without regard to case.
HasUrlScheme(u, scheme) ==
    /\ Len(u) > Len(scheme)
    /\ ToLower(SubSeq(u, 1, Len(scheme))) = scheme
    /\ CharAt(u, Len(scheme) + 1) = ":"

\* C16: POST /webhooks answers 201, with the hook stored in memory and in the
\* file, only if no hook is stored under its id and the hook passes the full
\* validation (events non-empty and all known, repos non-empty and all in the
\* configuration, URL scheme http or https in any case of the letters,
\* secret of at least 20 bytes); a
\* request that is undecodable, a duplicate or invalid is answered 400 and
\* changes neither the in-memory store nor the file.
C16_CreateOnlyNewAndValid ==
    hookResp.op = "create" =>
        LET body == hookReq.hook
            duplicate == HookLookup(hookResp.pre, body.id) # NilHook
            valid == /\ Len(body.events) > 0
                     /\ \A i \in 1..Len(body.events) : body.events[i] \in {"push"}
                     /\ Len(body.repos) > 0
                     /\ \A i \in 1..Len(body.repos) : body.repos[i] \in ConfigRepos
                     /\ HasUrlScheme(body.url, "http") \/ HasUrlScheme(body.url, "https")
                     /\ Len(body.secret) >= 20
            acceptable == hookReq.decoded /\ ~duplicate /\ valid
        IN /\ hookResp.status = 201 =>
                /\ acceptable
                /\ hookStore = HookPut(hookResp.pre, body.id, body)
                /\ hookFile = HookSaved(hookStore)
           /\ ~acceptable =>
                /\ hookResp.status = 400
                /\ hookStore = hookResp.pre
                /\ hookFile = hookResp.preFile

\* C16 witness: a new valid hook was created next to a stored one.
C16_Witness ==
    /\ hookResp.op = "create" /\ hookResp.status = 201
    /\ StoreKeys(hookResp.pre) # {}
    /\ hookStore[hookReq.hook.id] = hookReq.hook

\* C17: PATCH /webhooks/{hook-id} on a stored hook: when it is answered 200
\* every field supplied in the request has the supplied value, every other
\* field has its old value and no other hook has changed; a request that
\* supplies an id, or whose patched hook fails the full validation, is
\* answered 400 and leaves the store and the file unchanged.
C17_PatchOverwritesSupplied ==
    (/\ hookResp.op = "update"
     /\ hookReq.decoded
     /\ hookResp.pre[hookResp.id] \notin {NoEntry, NilHook}) =>
        LET id == hookResp.id
            old == hookResp.pre[id]
            patch == hookReq.patch
            Supplied(p, prev) == IF p = Absent THEN prev ELSE p.v
            events == Supplied(patch.events, old.events)
            repos == Supplied(patch.repos, old.repos)
            url == Supplied(patch.url, old.url)
            secret == Supplied(patch.secret, old.secret)
            valid == /\ Len(events) > 0
                     /\ \A i \in 1..Len(events) : events[i] \in {"push"}
                     /\ Len(repos) > 0
                     /\ \A i \in 1..Len(repos) : repos[i] \in ConfigRepos
                     /\ HasUrlScheme(url, "http") \/ HasUrlScheme(url, "https")
                     /\ Len(secret) >= 20
        IN /\ hookResp.status = 200 =>
                /\ hookStore[id].id = old.id
                /\ hookStore[id].url = url
                /\ hookStore[id].secret = secret
                /\ hookStore[id].enabled = Supplied(patch.enabled, old.enabled)
                /\ hookStore[id].events = events
                /\ hookStore[id].repos = repos
                /\ \A k \in HookIds \ {id} : hookStore[k] = hookResp.pre[k]
           /\ (patch.id # Absent \/ ~valid) =>
                /\ hookResp.status = 400
                /\ hookStore = hookResp.pre
                /\ hookFile = hookResp.preFile

\* C17 witness: a PATCH that supplied some fields was answered 200 and
\* changed the stored hook.
C17_Witness ==
    /\ hookResp.op = "update" /\ hookResp.status = 200
    /\ hookReq.patch # NoPatch
    /\ hookStore[hookResp.id] # hookResp.pre[hookResp.id]

\* C18: GET, PATCH and DELETE on /webhooks/{hook-id} for an id that is not a
\* key of the store are answered 404 and leave the in-memory store and the
\* store file as they were.
C18_UnknownIdNotFound ==
    (/\ hookResp.op \in {"get", "update", "delete"}
     /\ hookResp.pre[hookResp.id] = NoEntry) =>
        /\ hookResp.status = 404
        /\ hookStore = hookResp.pre
        /\ hookFile = hookResp.preFile

\* C13: when trigger-webhooks has gone through the store for event e and
\* repository r, one POST has been dispatched to every hook of the store
\* that is enabled, has e among its events and r among its repos, and none
\* to any other hook, whatever the outcomes of the POSTs were; at no time
\* has a hook been sent more than one.
C13_OnePostPerMatch ==
    /\ \A k \in HookIds : trPosts[k] <= 1
    /\ trPc = "exited" =>
          \A k \in HookIds :
              LET hook == trStore[k]
                  subscribed == /\ hook \notin {NoEntry, NilHook}
                                /\ hook.enabled
                                /\ \E i \in 1..Len(hook.events) : hook.events[i] = trEvent
                                /\ \E i \in 1..Len(hook.repos) : hook.repos[i] = trRepo
              IN trPosts[k] = IF subscribed THEN 1 ELSE 0

\* C13 witness: two hooks matched, the POST to one failed and the other got
\* its POST.
C13_Witness ==
    /\ trPc = "exited"
    /\ \E k, j \in HookIds : k # j /\ trOut[k] = "error" /\ trPosts[j] = 1

\* C14: the text trigger-webhooks has read from the store file is a whole
\* JSON array, and it is one of the complete texts the path has named: the
\* text before the server's Save or the text the Save wrote.
C14_NoTornRead ==
    (trFd # 0 /\ trPc \in {"read", "dispatch", "aborted", "exited"}) =>
        UnmarshalStore(trContent).ok /\ trContent \in fsVersions

\* C14 witness: the file was read while Save had written a part of the new
\* text.
C14_Witness ==
    /\ trPc = "read"
    /\ trReadAt = "write"
    /\ svPc = "write"
    /\ Len(fsText[svTmp]) \in 1..(Len(svText) - 1)

\* C19: every hook of a loaded store has non-empty events and repos, in
\* ascending order, all of them known events and repositories of the
\* configuration; an id is in the loaded store exactly when some entry of
\* the file with that id keeps an event and a repository after stripping.
C19_LoadedHooksCanonical ==
    trPc \in {"dispatch", "exited"} =>
        LET raw == UnmarshalStore(trContent).raw
            Keeps(h) == /\ \E i \in 1..Len(h.events) : h.events[i] \in {"push"}
                        /\ \E i \in 1..Len(h.repos) : h.repos[i] \in {"other", "repo"}
            Ascending(list) ==
                \A i \in 1..Len(list), j \in 1..Len(list) :
                    i < j => (list[i] = list[j] \/ <<list[i], list[j]>> = <<"other", "repo">>)
        IN \A k \in HookIds :
              /\ trStore[k] # NoEntry <=> \E i \in 1..Len(raw) : raw[i].id = k /\ Keeps(raw[i])
              /\ trStore[k] # NoEntry =>
                    /\ trStore[k] # NilHook
                    /\ Len(trStore[k].events) > 0
                    /\ Len(trStore[k].repos) > 0
                    /\ \A i \in 1..Len(trStore[k].events) : trStore[k].events[i] \in {"push"}
                    /\ \A i \in 1..Len(trStore[k].repos) : trStore[k].repos[i] \in {"other", "repo"}
                    /\ Ascending(trStore[k].events)
                    /\ Ascending(trStore[k].repos)

\* C19 witness: the file held an entry that was dropped and an entry whose
\* lists were stripped or reordered.
C19_Witness ==
    /\ trPc = "dispatch"
    /\ LET raw == UnmarshalStore(trContent).raw IN
       /\ \E i \in 1..Len(raw) : trStore[raw[i].id] = NoEntry
       /\ \E i \in 1..Len(raw) :
             /\ trStore[raw[i].id] # NoEntry
             /\ trStore[raw[i].id].repos # raw[i].repos

\* C20: a trigger-webhooks run that has dispatched its POSTs ends with exit
\* status 0, also when a POST failed.
C20_FailedPostNotSurfaced ==
    trPc = "exited" => trExit = 0

\* C15: concurrent webhook requests on one API object are linearizable:
\* every completed request has the response, and whenever no handler holds
\* the lock the store and the file have the content, that the handlers give
\* when they run one at a time in the order in which they completed; of two
\* creates with the same id at most one is answered 201 when no request
\* deletes the id.
C15_Linearizable ==
    /\ \A p \in Clients : hcPc[p] = "done" => hcRes[p] = hcExp[p]
    /\ (hcLock.writer = 0 /\ hcLock.readers = {}) =>
          (hcStore = hcRef.store /\ hcFile = hcRef.file)
    /\ \A p, q \in Clients :
          (/\ p # q
           /\ hcPc[p] = "done" /\ hcPc[q] = "done"
           /\ hcReq[p].op = "create" /\ hcReq[q] = hcReq[p]
           /\ \A r \in Clients : ~(hcReq[r].op = "delete" /\ hcReq[r].id = hcReq[p].id)
           /\ hcRes[p].status = 201) => hcRes[q].status # 201

\* C15 witness: two creates with the same id ran at the same time; one was
\* answered 201 and the other 400.
C15_Witness ==
    \E p, q \in Clients :
        /\ p # q
        /\ hcPc[p] = "done" /\ hcPc[q] = "done"
        /\ hcReq[p].op = "create" /\ hcReq[q] = hcReq[p]
        /\ hcConc[q]
        /\ hcRes[p].status = 201 /\ hcRes[q].status = 400

(***************************************************************************)
(* Claims about the payload of a Git push.                                 *)
(***************************************************************************)

\* The commits reachable from a set of commits in the object store.
RECURSIVE GitReach(_)
GitReach(tips) ==
    LET more == tips \cup UNION {Range(gitParents[c]) : c \in tips}
    IN IF more = tips THEN tips ELSE GitReach(more)

\* The ids of the payload's commits whose target is the given branch.
PayloadIds(branch) ==
    {gitPayload[i].id : i \in {j \in 1..Len(gitPayload) : gitPayload[j].branch = branch}}

\* The first record of the input, once the loop has handled it.
FirstRecordHandled ==
    /\ gitPc \in {"records", "returned"}
    /\ gitIdx > 1
    /\ HasHeadsPrefix(gitInput[1].ref)

\* C21: for a record whose old and new revisions are both non-zero, the
\* payload's commits for that ref are exactly the commits reachable from the
\* new revision and not reachable from the old one.  Stated for the first
\* record of a push, which no earlier record's commits can shorten.
C21_NewMinusOld ==
    (/\ FirstRecordHandled
     /\ gitInput[1].old # nullRevision
     /\ gitInput[1].new # nullRevision)
    => PayloadIds(TrimHeadsPrefix(gitInput[1].ref))
         = GitReach({gitInput[1].new}) \ GitReach({gitInput[1].old})

\* C22: for a record whose old revision is all-zero, the payload's commits
\* for that ref are the commits reachable from the new revision and not
\* reachable from the tip of any other local branch.  Stated for the first
\* record of a push.
C22_NewBranchOnly ==
    (/\ FirstRecordHandled
     /\ gitInput[1].old = nullRevision
     /\ gitInput[1].new # nullRevision)
    => PayloadIds(TrimHeadsPrefix(gitInput[1].ref))
         = GitReach({gitInput[1].new})
             \ GitReach(OtherBranchTips(gitBranches, gitInput[1].ref))

\* C23: no commit id appears more than once in the payload's commits.
C23_NoDuplicateCommit ==
    \A i, j \in 1..Len(gitPayload) :
        gitPayload[i].id = gitPayload[j].id => i = j

\* A push of two branches whose new revisions share a commit that the
\* payload holds has been parsed to its end.
C23_Witness ==
    /\ gitPc = "returned"
    /\ Len(gitInput) = 2
    /\ gitInput[1].new # nullRevision
    /\ gitInput[2].new # nullRevision
    /\ \E i \in 1..Len(gitPayload) :
          gitPayload[i].id \in GitReach({gitInput[1].new}) \cap GitReach({gitInput[2].new})

\* C24: within the commits of one ref, every commit comes after each of its
\* ancestors that the payload holds for that ref.
C24_AncestorsFirst ==
    \A i, j \in 1..Len(gitPayload) :
        (/\ i < j
         /\ gitPayload[i].branch = gitPayload[j].branch
         /\ gitPayload[i].id # gitPayload[j].id)
        => gitPayload[j].id \notin GitReach({gitPayload[i].id})

(***************************************************************************)
(* Claims about the installation of hooks.                                 *)
(***************************************************************************)

\* The installed rb-gateway hook command: the Git script file or the hgrc key.
InstalledCommand == IF ihScm = "git" THEN ihFs.script ELSE ihHgKey

\* C25: after any sequence of InstallHooks calls, the installed command is
\* that of the most recent call with force=true, or of the first call when
\* no call was forced; and a call with force=false leaves an
\* already-installed command as it was.
C25_ForceDecides ==
    /\ ihCalls > 0 => InstalledCommand = ihWant
    /\ (ihCalls > 0 /\ ~ihLast.force /\ ihLast.pre # NoFile)
           => InstalledCommand = ihLast.pre

\* C26: a hook that was at hooks/post-receive before the first call is still
\* there or at post-receive.d/00-original-post-receive after any calls.
C26_OriginalKept ==
    ihUser0 => (ihFs.dispatch = UserHook \/ ihFs.original = UserHook)

\* C27: when a call has moved the original hook into post-receive.d and a
\* later step of it has failed, the original hook is back at
\* hooks/post-receive.  It is not when the rename back fails as well.
C27_FailedInstallRestores ==
    (ihLast.moved /\ ihLast.hit)
    => (ihFs.dispatch = UserHook /\ ihFs.original = NoFile)

\* C27, amended: when a call has moved the original hook into post-receive.d
\* and a later step of it has failed, the original hook is back at
\* hooks/post-receive unless the rename back failed too; in that case the
\* original hook is still in post-receive.d and the call returned the error.
C27_FailedInstallRestoresUnlessRenameFails ==
    (ihLast.moved /\ ihLast.hit) =>
        IF ihLast.restoreFailed
        THEN ihFs.original = UserHook /\ ihLast.failed
        ELSE ihFs.dispatch = UserHook /\ ihFs.original = NoFile

\* A call moved the original hook, failed at a later step and moved the
\* original hook back.
C27_Witness ==
    /\ ihLast.moved
    /\ ihLast.hit
    /\ ~ihLast.restoreFailed
    /\ ihFs.dir
    /\ ihFs.dispatch = UserHook

\* C28: the dispatcher runs every executable file of post-receive.d; it
\* exits 0 when all of them succeeded, and otherwise with the exit status of
\* the last one that failed.
C28_DispatcherExitStatus ==
    dhPc = "exited" =>
        LET runnable == {i \in 1..Len(dhHooks) : dhHooks[i].exec}
            failing == {i \in runnable : dhHooks[i].code # 0}
        IN /\ dhRan = runnable
           /\ IF failing = {} THEN dhExit = 0
              ELSE \E i \in failing : /\ \A j \in failing : j <= i
                                      /\ dhExit = dhHooks[i].code

(***************************************************************************)
(* Claims about the requests of trigger-webhooks and the store file.       *)
(***************************************************************************)

\* C29: every POST that is dispatched carries in X-RBG-Signature the
\* lowercase-hex HMAC-SHA1 of the body that is sent, keyed with the secret
\* of the hook it is sent for, and the name of the event in X-RBG-Event.
C29_SignedWithOwnSecret ==
    \A k \in HookIds :
        trSent[k].sent =>
            /\ trSent[k].signature
                 = [hex |-> "0123456789abcdef",
                    bytes |-> [mac |-> "hmac-sha1", key |-> HookLookup(trStore, k).secret,
                               message |-> trSent[k].body]]
            /\ trSent[k].event = trEvent
            /\ trSent[k].body = trBody
            /\ trSent[k].url = HookLookup(trStore, k).url

\* Two hooks with different secrets were sent the same body, each with a
\* signature of its own.
C29_Witness ==
    /\ trPc = "exited"
    /\ trSent["h1"].sent
    /\ trSent["h2"].sent
    /\ trSent["h1"].body = trSent["h2"].body
    /\ trSent["h1"].signature # trSent["h2"].signature

\* C30: a store that is saved, loaded from the saved file and saved again
\* leaves a file equal, byte for byte, to the one the first save wrote.
C30_SaveLoadSaveIdentical ==
    rtPc = "resaved" => rtFile = rtFirst

(***************************************************************************)
(* Claims about token issuance, the serve command and reinstall-hooks.     *)
(***************************************************************************)

\* One step of a call of New by caller p, as the claim allows it.
NewStepAllowed(p) ==
    /\ top[p].op = "new" => top[p].i <= maxAttempts
    /\ (tpc[p] = "crit" /\ top[p].op = "new" /\ top'[p].i = top[p].i + 1)
           => (top[p].i < maxAttempts /\ tsTokens' = tsTokens)
    /\ (tpc[p] = "crit" /\ top[p].op = "new" /\ tpc'[p] = "insert")
           => (top[p].i < maxAttempts /\ top'[p].tok \notin tsTokens)
    /\ (tpc[p] = "insert" /\ tpc'[p] = "done")
           => /\ top'[p].res = top[p].tok
              /\ top[p].tok \notin tsTokens
              /\ tsTokens' = tsTokens \cup {top[p].tok}
    /\ (tpc[p] = "crit" /\ top[p].op = "new" /\ tpc'[p] = "done")
           => /\ top'[p].res \in {"exhausted", "rngerr"}
              /\ tsTokens' = tsTokens
              /\ top'[p].res = "exhausted" => top[p].i = maxAttempts

\* C31: New draws at most maxAttempts tokens; it returns the first drawn
\* token that is not in the set and adds it, and it returns an error and adds
\* nothing when every draw collided or the random source failed.
C31_NewDrawsAtMostTen == [][\A p \in Callers : NewStepAllowed(p)]_vars

\* A call of New has ended in the error of maxAttempts collisions.
C31_Witness ==
    \E p \in Callers :
        /\ tpc[p] = "done"
        /\ top[p].op = "new"
        /\ top[p].res = "exhausted"
        /\ Len(tsIssued) = NumRaw

(***************************************************************************)
(* The serve loop and the ":memory:" token store.                          *)
(***************************************************************************)

\* C32: the serve command never runs on a configuration whose token store
\* path is ":memory:": a first configuration of that kind ends the process
\* before the API object is built, and a reloaded one never reaches
\* SetConfig and leaves the API object as it was before the reload.
C32_NoMemoryStoreInServe ==
    /\ serveCfg.fail = "memory" => loopPc = "fatal" /\ apiCfg = ApiOf(0)
    /\ loopPc \in {"setconfig", "construct", "assign"} => newCfg.fail # "memory"
    /\ newCfg.fail = "memory" /\ loopPc = "serve" =>
           reloadOutcome = "memory" /\ apiCfg = reloadPre /\ applied # newCfg.gen

C32_Witness ==
    /\ loopPc = "serve"
    /\ newCfg.fail = "memory"
    /\ newCfg.gen = 2
    /\ reloadOutcome = "memory"
    /\ apiCfg = ApiOf(1)

\* C36: when a reload has succeeded and the installHooks call after it has
\* returned, installHooks has been run on the repositories of the
\* configuration that was reloaded.
C36_ReloadInstallsNewRepositories ==
    (reloadOutcome = "ok" /\ loopPc # "install") => hooksFor = applied

(***************************************************************************)
(* Loading a webhook store whose file is missing.                          *)
(***************************************************************************)

\* C33: trigger-webhooks, run for a configured repository and a valid
\* event while no file exists at the webhook store path, loads an empty
\* store and does not end in an error before the dispatch.
C33_MissingStoreFileLoadsEmpty ==
    fsPath = 0 /\ trRepo \in ConfigRepos /\ IsValidEvent(trEvent) =>
        trPc # "aborted" /\ trStore = EmptyStore

(***************************************************************************)
(* reinstall-hooks.                                                        *)
(***************************************************************************)

\* C34: when reinstall-hooks has ended, and the configuration was loaded,
\* InstallHooks has been called with force on every configured repository,
\* whichever of them failed; and the exit status is other than 0 exactly
\* when the configuration could not be loaded or the installation failed
\* for a repository.  An installHook that fails after it moved the original
\* hook returns nil once it has moved the hook back, so the status is 0.
C34_ReinstallTriesEveryRepository ==
    rhPc = "exited" =>
        /\ rhLoaded => rhCalls = {[repo |-> r, force |-> TRUE] : r \in rhCfg}
        /\ (rhExit # 0) <=> (~rhLoaded \/ rhBroken # {})

C34_Witness ==
    /\ rhPc = "exited"
    /\ rhCfg = RepoNames
    /\ Len(rhErrors) = 1
    /\ Cardinality(rhCalls) = MaxRepos
    /\ rhExit = 1

(***************************************************************************)
(* mergeBase.                                                              *)
(***************************************************************************)

\* The commits of the store mbParents that are c or an ancestor of c.
RECURSIVE MbAncestors(_)
MbAncestors(cs) ==
    LET more == cs \cup UNION {Range(mbParents[c]) : c \in cs}
    IN IF more = cs THEN cs ELSE MbAncestors(more)

MbCommon == MbAncestors({mbA}) \cap MbAncestors({mbB})

\* The common ancestors none of whose children is a common ancestor.
MbBases == {h \in MbCommon : ~\E c \in MbCommon : h \in Range(mbParents[c])}

\* The rank of a commit in the pre-order walk from a.
MbRank(h) == IndexOf(CommitPreorderIter(mbParents, mbA, {}, {}), h, 1)

\* C35: mergeBase(a, b) returns nothing only when a and b have no common
\* ancestor; otherwise it returns a common ancestor that has no child among
\* the common ancestors, and of these the one the walk from a meets first.
C35_MergeBaseIsNearestBase ==
    mbPc = "returned" =>
        /\ (mbBest = nullRevision) <=> (MbCommon = {})
        /\ mbBest # nullRevision =>
               /\ mbBest \in MbBases
               /\ \A g \in MbBases : MbRank(mbBest) <= MbRank(g)

\* A criss-cross: two bases, neither of them an argument.
C35_Witness ==
    /\ mbPc = "returned"
    /\ Cardinality(MbBases) = 2
    /\ mbA \notin MbBases
    /\ mbB \notin MbBases
    /\ mbBest \in MbBases

\* Two histories without a common commit.
C35_WitnessUnrelated ==
    /\ mbPc = "returned"
    /\ MbCommon = {}
    /\ mbBest = nullRevision

(***************************************************************************)
(* What the file of a store holds while the store is saved.                *)
(***************************************************************************)

\* C37: while and after the token store is saved, the file at its path holds
\* what it held before the Save or the whole text the Save writes, as a
\* write to a temporary file followed by a rename leaves it; it never holds
\* anything else.
C37_StoreFileNeverPartial ==
    tkPc # "idle" => tkFile = tkBefore \/ (tkPc # "start" /\ tkFile = TokenFile(tkBytes))

(***************************************************************************)
(* Tokens and reloads.                                                     *)
(***************************************************************************)

\* C38: between reloads, every token the session endpoint has answered with
\* is in the token store the API object uses, so that the token-required
\* middleware accepts it, however many reloads there have been.
C38_TokenSurvivesReload ==
    loopPc \in {"serve", "select"} => tokIssued \subseteq stTokens[apiCfg.tokenStore]

(***************************************************************************)
(* The session endpoint when no token can be issued.                       *)
(***************************************************************************)

\* New() has failed for the request: the random source returned an error
\* before a free token was drawn, or all the draws were tokens of the store.
SessIssuanceFailed == sePc = "done" /\ seMade.err

\* C40: when New() fails, the session endpoint answers with status 500 and
\* no token, and its handler ends normally: it does not dereference the
\* token it did not get.
C40_FailedIssuanceAnswers500 ==
    SessIssuanceFailed =>
        seResp.status = 500 /\ seResp.token = <<>> /\ ~seResp.panicked

(***************************************************************************)
(* Termination of Shutdown and SetConfig.                                  *)
(***************************************************************************)

\* A reload is under way: the select has received a configuration and the
\* loop is about to call api.Shutdown.
ReloadEvent == loopPc = "shutdown" /\ newCfg # NoCfg

\* C39: unless the process ends (log.Fatal, or a signal that kills it),
\* Shutdown and SetConfig get the writer lock they wait for, the writer lock
\* is released again, a listener goroutine that was spawned gets past its
\* RLock, and after a reload event the loop calls api.Serve again.
C39_ShutdownAndSetConfigTerminate ==
    /\ (loopPc \in {"lock", "setconfig"}) ~> (cfgLock.writer \/ ~ProcessAlive)
    /\ cfgLock.writer ~> (~cfgLock.writer \/ ~ProcessAlive)
    /\ (listener = "spawned") ~> (listener # "spawned" \/ ~ProcessAlive)
    /\ ReloadEvent ~> ((loopPc = "select" /\ listener # "closed") \/ ~ProcessAlive)

\* A reload has gone through Shutdown and SetConfig, both under the writer
\* lock, while a handler was still running, and the next listener listens.
C39_Witness ==
    /\ loopPc = "select"
    /\ listener = "listening"
    /\ reloadOutcome = "none"
    /\ applied = 2
    /\ \E h \in Handlers : Running(h)

====
